---- MODULE Spec2Model ----
(***************************************************************************)
(* Rule-based core of the insurance query backend: ClauseMaster            *)
(* (app/services/clause_master.py), the fallback path of LLMService        *)
(* (app/services/llm_service.py) and the query entity extraction of        *)
(* DocumentProcessor (app/services/document_processor.py).                 *)
(*                                                                         *)
(* Text is a sequence of one-character strings, so that the regular        *)
(* expressions, str.lower, str.split, str.strip and int() of the source    *)
(* are computed character by character.  Floating point scores are kept    *)
(* in tenths (0.8 is 8).                                                   *)
(***************************************************************************)
EXTENDS Integers, Sequences, FiniteSets, TLC

VARIABLES
    pc,               \* "call" before the operation ran, "done" after
    clause_content,   \* argument of extract_clause_info
    clause_info,      \* its result
    query_entities,   \* argument of evaluate_coverage_eligibility
    matched_clauses,  \* argument of evaluate_coverage_eligibility / analyze_insurance_query
    evaluation,       \* result of evaluate_coverage_eligibility
    other_clauses,    \* second run's clause list (same entities) for two-run comparisons
    other_evaluation, \* second run's result
    query,            \* argument of analyze_insurance_query
    llm_reply,        \* what the hosted LLM call does for this request
    decision,         \* what analyze_insurance_query returns (or that it raised)
    input_clauses,    \* the clauses argument of match_clauses_to_query (annotated in place)
    extracted_entities \* result of DocumentProcessor.extract_entities_from_query

vars == <<pc, clause_content, clause_info, query_entities, matched_clauses,
          evaluation, other_clauses, other_evaluation, query, llm_reply, decision,
          input_clauses, extracted_entities>>

(***************************************************************************)
(* Bounds of the model.                                                    *)
(***************************************************************************)
\* number of text fragments concatenated into one clause text
MaxParts == 2
\* length of the clause list handed to evaluate_coverage_eligibility
MaxClauses == 2
\* length of the clause list handed to analyze_insurance_query
MaxMatched == 4

(***************************************************************************)
(* Characters and strings.                                                 *)
(***************************************************************************)
Digits == {"0", "1", "2", "3", "4", "5", "6", "7", "8", "9"}

IsDigit(c) == c \in Digits

\* Python's \s and str.strip() whitespace (ASCII part)
IsSpace(c) == c \in {" ", "\n", "\t", "\r", "\f"}

UpperToLower ==
    [c \in {"A", "B", "C", "D", "E", "F", "G", "H", "I", "J", "K", "L", "M",
            "N", "O", "P", "Q", "R", "S", "T", "U", "V", "W", "X", "Y", "Z"} |->
        CASE c = "A" -> "a" [] c = "B" -> "b" [] c = "C" -> "c" [] c = "D" -> "d"
          [] c = "E" -> "e" [] c = "F" -> "f" [] c = "G" -> "g" [] c = "H" -> "h"
          [] c = "I" -> "i" [] c = "J" -> "j" [] c = "K" -> "k" [] c = "L" -> "l"
          [] c = "M" -> "m" [] c = "N" -> "n" [] c = "O" -> "o" [] c = "P" -> "p"
          [] c = "Q" -> "q" [] c = "R" -> "r" [] c = "S" -> "s" [] c = "T" -> "t"
          [] c = "U" -> "u" [] c = "V" -> "v" [] c = "W" -> "w" [] c = "X" -> "x"
          [] c = "Y" -> "y" [] c = "Z" -> "z"]

LowerChar(c) == IF c \in DOMAIN UpperToLower THEN UpperToLower[c] ELSE c

\* str.lower(); also the folding re.IGNORECASE applies before comparing
Lower(s) == [i \in 1..Len(s) |-> LowerChar(s[i])]

Min(S) == CHOOSE x \in S : \A y \in S : x <= y

Max(S) == CHOOSE x \in S : \A y \in S : y <= x

\* the literal lit occurs in s starting at position i
LitAt(s, i, lit) ==
    /\ i >= 1
    /\ i + Len(lit) - 1 <= Len(s)
    /\ \A k \in 1..Len(lit) : s[i + k - 1] = lit[k]

\* Python's  lit in s
Contains(s, lit) == \E i \in 1..(Len(s) - Len(lit) + 1) : LitAt(s, i, lit)

\* position after a greedy \s* that starts at i
SkipSpaces(s, i) ==
    Min({j \in i..(Len(s) + 1) : j = Len(s) + 1 \/ ~IsSpace(s[j])})

\* position after a greedy \d* that starts at i
SkipDigits(s, i) ==
    Min({j \in i..(Len(s) + 1) : j = Len(s) + 1 \/ ~IsDigit(s[j])})

\* position after an optional literal (lit)? that starts at i
SkipOptional(s, i, lit) == IF LitAt(s, i, lit) THEN i + Len(lit) ELSE i

\* position after the first alternative of lits (in order) found at i, 0 if none
RECURSIVE AfterAlternative(_, _, _)
AfterAlternative(s, i, lits) ==
    IF lits = <<>> THEN 0
    ELSE IF LitAt(s, i, Head(lits)) THEN i + Len(Head(lits))
    ELSE AfterAlternative(s, i, Tail(lits))

\* position after a greedy \d+(?:,\d+)* that starts at the digit at i
RECURSIVE SkipNumber(_, _)
SkipNumber(s, i) ==
    LET j == SkipDigits(s, i)
    IN  IF j + 1 <= Len(s) /\ s[j] = "," /\ IsDigit(s[j + 1])
        THEN SkipNumber(s, j + 1)
        ELSE j

\* position of the next "\n" at or after i, Len(s)+1 if none: where (.*?)(?=\n|$) stops
LineEnd(s, i) ==
    Min({j \in i..(Len(s) + 1) : j = Len(s) + 1 \/ s[j] = "\n"})

\* str.strip()
Strip(s) ==
    LET keep == {i \in 1..Len(s) : ~IsSpace(s[i])}
    IN  IF keep = {} THEN <<>> ELSE SubSeq(s, Min(keep), Max(keep))

\* str.split(sep) for a one-character sep
RECURSIVE Split(_, _)
Split(s, sep) ==
    LET at == {i \in 1..Len(s) : s[i] = sep}
    IN  IF at = {} THEN <<s>>
        ELSE <<SubSeq(s, 1, Min(at) - 1)>> \o Split(SubSeq(s, Min(at) + 1, Len(s)), sep)

\* str.replace(one character, "")
Remove(s, ch) == SelectSeq(s, LAMBDA c : c # ch)

DigitValue ==
    [c \in Digits |->
        CASE c = "0" -> 0 [] c = "1" -> 1 [] c = "2" -> 2 [] c = "3" -> 3
          [] c = "4" -> 4 [] c = "5" -> 5 [] c = "6" -> 6 [] c = "7" -> 7
          [] c = "8" -> 8 [] c = "9" -> 9]

RECURSIVE DigitsValue(_)
DigitsValue(ds) ==
    IF ds = <<>> THEN 0
    ELSE 10 * DigitsValue(SubSeq(ds, 1, Len(ds) - 1)) + DigitValue[ds[Len(ds)]]

\* int(s) succeeds: optional surrounding whitespace, optional sign, decimal digits
IntParses(s) ==
    LET t == Strip(s)
        d == IF t # <<>> /\ t[1] \in {"+", "-"} THEN Tail(t) ELSE t
    IN  d # <<>> /\ \A i \in 1..Len(d) : IsDigit(d[i])

\* int(s), for a string on which int() succeeds
IntOf(s) ==
    LET t == Strip(s)
    IN  IF t[1] = "-" THEN 0 - DigitsValue(Tail(t))
        ELSE IF t[1] = "+" THEN DigitsValue(Tail(t))
        ELSE DigitsValue(t)

(***************************************************************************)
(* ClauseMaster.__init__: pattern tables and decision rules.               *)
(***************************************************************************)
L_month == <<"m", "o", "n", "t", "h">>
L_year == <<"y", "e", "a", "r">>
L_waiting == <<"w", "a", "i", "t", "i", "n", "g">>
L_period == <<"p", "e", "r", "i", "o", "d">>
L_of == <<"o", "f">>
L_lakh == <<"l", "a", "k", "h">>
L_lac == <<"l", "a", "c">>
L_thousand == <<"t", "h", "o", "u", "s", "a", "n", "d">>
L_million == <<"m", "i", "l", "l", "i", "o", "n">>
L_coverage == <<"c", "o", "v", "e", "r", "a", "g", "e">>
L_limit == <<"l", "i", "m", "i", "t">>
L_exclusion == <<"e", "x", "c", "l", "u", "s", "i", "o", "n">>
L_not == <<"n", "o", "t">>
L_covered == <<"c", "o", "v", "e", "r", "e", "d">>
L_knee == <<"k", "n", "e", "e">>
L_hip == <<"h", "i", "p">>
L_heart == <<"h", "e", "a", "r", "t">>
L_brain == <<"b", "r", "a", "i", "n">>
L_spine == <<"s", "p", "i", "n", "e">>
L_cancer == <<"c", "a", "n", "c", "e", "r">>
L_diabetes == <<"d", "i", "a", "b", "e", "t", "e", "s">>
L_hypertension == <<"h", "y", "p", "e", "r", "t", "e", "n", "s", "i", "o", "n">>

\* decision_rules["age_limits"]
min_age == 18
max_age == 65

\* decision_rules["waiting_periods"], in months
waiting_surgery == 12
waiting_pre_existing == 24
waiting_general == 3

\* decision_rules["coverage_types"]
coverage_types_surgery == <<L_knee, L_hip, L_heart, L_brain, L_spine>>
coverage_types_medical_conditions == <<L_cancer, L_diabetes, L_hypertension>>

\* a regex search result: whether it matched, and group(1)
NoMatch == [matched |-> FALSE, group1 |-> <<>>]
Match(g) == [matched |-> TRUE, group1 |-> g]

\* r"(\d+)\s*(?:month|year)s?\s*waiting" matched at i: position after the match, else 0
WaitingPattern1End(s, i) ==
    IF ~IsDigit(s[i]) THEN 0
    ELSE LET u == AfterAlternative(s, SkipSpaces(s, SkipDigits(s, i)), <<L_month, L_year>>)
         IN  IF u = 0 THEN 0
             ELSE LET w == SkipSpaces(s, SkipOptional(s, u, <<"s">>))
                  IN  IF LitAt(s, w, L_waiting) THEN w + Len(L_waiting) ELSE 0

\* r"waiting\s*period\s*of\s*(\d+)\s*(?:month|year)s?": start of group 1, else 0
WaitingPattern2Group(s, i) ==
    IF ~LitAt(s, i, L_waiting) THEN 0
    ELSE LET p == SkipSpaces(s, i + Len(L_waiting))
         IN  IF ~LitAt(s, p, L_period) THEN 0
             ELSE LET o == SkipSpaces(s, p + Len(L_period))
                  IN  IF ~LitAt(s, o, L_of) THEN 0
                      ELSE LET d == SkipSpaces(s, o + Len(L_of))
                           IN  IF d <= Len(s) /\ IsDigit(s[d]) THEN d ELSE 0

WaitingPattern2End(s, i) ==
    LET d == WaitingPattern2Group(s, i)
    IN  IF d = 0 THEN 0
        ELSE LET u == AfterAlternative(s, SkipSpaces(s, SkipDigits(s, d)), <<L_month, L_year>>)
             IN  IF u = 0 THEN 0 ELSE SkipOptional(s, u, <<"s">>)

\* r"(\d+(?:,\d+)*)\s*(?:lakh|lac|thousand|million)"
CoveragePattern1End(s, i) ==
    IF ~IsDigit(s[i]) THEN 0
    ELSE AfterAlternative(s, SkipSpaces(s, SkipNumber(s, i)),
                          <<L_lakh, L_lac, L_thousand, L_million>>)

\* r"coverage\s*limit\s*(\d+(?:,\d+)*)": start of group 1, else 0
CoveragePattern2Group(s, i) ==
    IF ~LitAt(s, i, L_coverage) THEN 0
    ELSE LET l == SkipSpaces(s, i + Len(L_coverage))
         IN  IF ~LitAt(s, l, L_limit) THEN 0
             ELSE LET d == SkipSpaces(s, l + Len(L_limit))
                  IN  IF d <= Len(s) /\ IsDigit(s[d]) THEN d ELSE 0

\* r"<head>\s*:\s*(.*?)(?=\n|$)" after the head literal ended before h:
\* start of group 1, else 0
ColonGroup(s, h) ==
    LET c == SkipSpaces(s, h)
    IN  IF LitAt(s, c, <<":">>) THEN SkipSpaces(s, c + 1) ELSE 0

\* r"exclusion[s]?\s*:\s*(.*?)(?=\n|$)": start of group 1, else 0
ExclusionPattern1Group(s, i) ==
    IF ~LitAt(s, i, L_exclusion) THEN 0
    ELSE ColonGroup(s, SkipOptional(s, i + Len(L_exclusion), <<"s">>))

\* r"not\s*covered\s*:\s*(.*?)(?=\n|$)": start of group 1, else 0
ExclusionPattern2Group(s, i) ==
    IF ~LitAt(s, i, L_not) THEN 0
    ELSE LET c == SkipSpaces(s, i + Len(L_not))
         IN  IF ~LitAt(s, c, L_covered) THEN 0
             ELSE ColonGroup(s, c + Len(L_covered))

\* re.search with re.IGNORECASE over each pattern: the match is the one at the
\* leftmost start position, group(1) is cut from the text as given.
\* clause_patterns["waiting_period"]["patterns"]
\* variant of SearchWaiting1: the match at the rightmost start position
SearchWaiting1_rightmost(text) ==
    LET s == Lower(text)
        starts == {i \in 1..Len(s) :
                     WaitingPattern1End(s, i) # 0 /\ (i = 1 \/ ~IsDigit(s[i - 1]))}
    IN  IF starts = {} THEN NoMatch
        ELSE Match(SubSeq(text, Max(starts), SkipDigits(s, Max(starts)) - 1))

SearchWaiting1(text) ==
    LET s == Lower(text)
        starts == {i \in 1..Len(s) : WaitingPattern1End(s, i) # 0}
    IN  IF starts = {} THEN NoMatch
        ELSE Match(SubSeq(text, Min(starts), SkipDigits(s, Min(starts)) - 1))

SearchWaiting2(text) ==
    LET s == Lower(text)
        starts == {i \in 1..Len(s) : WaitingPattern2End(s, i) # 0}
    IN  IF starts = {} THEN NoMatch
        ELSE LET g == WaitingPattern2Group(s, Min(starts))
             IN  Match(SubSeq(text, g, SkipDigits(s, g) - 1))

\* clause_patterns["coverage_limit"]["patterns"]
\* variant of SearchCoverage1: the number is a plain digit run, r"(\d+)\s*(?:lakh|...)"
SearchCoverage1_digit_run(text) ==
    LET s == Lower(text)
        starts == {i \in 1..Len(s) :
                     /\ IsDigit(s[i])
                     /\ AfterAlternative(s, SkipSpaces(s, SkipDigits(s, i)),
                                         <<L_lakh, L_lac, L_thousand, L_million>>) # 0}
    IN  IF starts = {} THEN NoMatch
        ELSE Match(SubSeq(text, Min(starts), SkipDigits(s, Min(starts)) - 1))

SearchCoverage1(text) ==
    LET s == Lower(text)
        starts == {i \in 1..Len(s) : CoveragePattern1End(s, i) # 0}
    IN  IF starts = {} THEN NoMatch
        ELSE Match(SubSeq(text, Min(starts), SkipNumber(s, Min(starts)) - 1))

SearchCoverage2(text) ==
    LET s == Lower(text)
        starts == {i \in 1..Len(s) : CoveragePattern2Group(s, i) # 0}
    IN  IF starts = {} THEN NoMatch
        ELSE LET g == CoveragePattern2Group(s, Min(starts))
             IN  Match(SubSeq(text, g, SkipNumber(s, g) - 1))

\* clause_patterns["exclusions"]["patterns"]
SearchExclusion1(text) ==
    LET s == Lower(text)
        starts == {i \in 1..Len(s) : ExclusionPattern1Group(s, i) # 0}
    IN  IF starts = {} THEN NoMatch
        ELSE LET g == ExclusionPattern1Group(s, Min(starts))
             IN  Match(SubSeq(text, g, LineEnd(s, g) - 1))

SearchExclusion2(text) ==
    LET s == Lower(text)
        starts == {i \in 1..Len(s) : ExclusionPattern2Group(s, i) # 0}
    IN  IF starts = {} THEN NoMatch
        ELSE LET g == ExclusionPattern2Group(s, Min(starts))
             IN  Match(SubSeq(text, g, LineEnd(s, g) - 1))

\* "for pattern in patterns: match = re.search(...); if match: ...; break"
FirstMatch(m1, m2) == IF m1.matched THEN m1 ELSE m2

\* an optional integer field: None, or a value
NoneInt == [set |-> FALSE, v |-> 0]
SomeInt(n) == [set |-> TRUE, v |-> n]

\* Python truthiness of an optional integer ("if x:")
Truthy(x) == x.set /\ x.v # 0

(***************************************************************************)
(* ClauseMaster.extract_clause_info.                                       *)
(***************************************************************************)
\* variant of extract_clause_info: a family's block leaves clause_type alone once
\* an earlier family has set it
extract_clause_info_first_label_kept(content) ==
    LET waiting == FirstMatch(SearchWaiting1(content), SearchWaiting2(content))
        coverage == FirstMatch(SearchCoverage1(content), SearchCoverage2(content))
        exclusion == FirstMatch(SearchExclusion1(content), SearchExclusion2(content))
        pieces == Split(exclusion.group1, ",")
    IN  [clause_type |->
             IF waiting.matched THEN "waiting_period"
             ELSE IF coverage.matched THEN "coverage_limit"
             ELSE IF exclusion.matched THEN "exclusion"
             ELSE "general",
         waiting_period |->
             IF waiting.matched THEN SomeInt(DigitsValue(waiting.group1)) ELSE NoneInt,
         coverage_limit |->
             IF coverage.matched THEN SomeInt(DigitsValue(Remove(coverage.group1, ",")))
             ELSE NoneInt,
         exclusions |->
             IF exclusion.matched THEN [k \in 1..Len(pieces) |-> Strip(pieces[k])]
             ELSE <<>>,
         conditions |-> <<>>]

\* variant of extract_clause_info: the families are an if/elif chain, so a family
\* is searched only when no earlier family matched
extract_clause_info_first_family_only(content) ==
    LET waiting == FirstMatch(SearchWaiting1(content), SearchWaiting2(content))
        coverage == IF waiting.matched THEN NoMatch
                    ELSE FirstMatch(SearchCoverage1(content), SearchCoverage2(content))
        exclusion == IF waiting.matched \/ coverage.matched THEN NoMatch
                     ELSE FirstMatch(SearchExclusion1(content), SearchExclusion2(content))
        pieces == Split(exclusion.group1, ",")
    IN  [clause_type |->
             IF waiting.matched THEN "waiting_period"
             ELSE IF coverage.matched THEN "coverage_limit"
             ELSE IF exclusion.matched THEN "exclusion"
             ELSE "general",
         waiting_period |->
             IF waiting.matched THEN SomeInt(DigitsValue(waiting.group1)) ELSE NoneInt,
         coverage_limit |->
             IF coverage.matched THEN SomeInt(DigitsValue(Remove(coverage.group1, ",")))
             ELSE NoneInt,
         exclusions |->
             IF exclusion.matched THEN [k \in 1..Len(pieces) |-> Strip(pieces[k])]
             ELSE <<>>,
         conditions |-> <<>>]

\* variant of extract_clause_info: a waiting period given in years is converted
\* to months
extract_clause_info_years_to_months(content) ==
    LET waiting == FirstMatch(SearchWaiting1(content), SearchWaiting2(content))
        coverage == FirstMatch(SearchCoverage1(content), SearchCoverage2(content))
        exclusion == FirstMatch(SearchExclusion1(content), SearchExclusion2(content))
        type1 == IF waiting.matched THEN "waiting_period" ELSE "general"
        type2 == IF coverage.matched THEN "coverage_limit" ELSE type1
        type3 == IF exclusion.matched THEN "exclusion" ELSE type2
        pieces == Split(exclusion.group1, ",")
        months == IF Contains(Lower(content), L_year) THEN 12 ELSE 1
    IN  [clause_type |-> type3,
         waiting_period |->
             IF waiting.matched THEN SomeInt(months * DigitsValue(waiting.group1))
             ELSE NoneInt,
         coverage_limit |->
             IF coverage.matched THEN SomeInt(DigitsValue(Remove(coverage.group1, ",")))
             ELSE NoneInt,
         exclusions |->
             IF exclusion.matched THEN [k \in 1..Len(pieces) |-> Strip(pieces[k])]
             ELSE <<>>,
         conditions |-> <<>>]

extract_clause_info(content) ==
    LET waiting == FirstMatch(SearchWaiting1(content), SearchWaiting2(content))
        coverage == FirstMatch(SearchCoverage1(content), SearchCoverage2(content))
        exclusion == FirstMatch(SearchExclusion1(content), SearchExclusion2(content))
        \* clause_type is assigned by each family's block in turn
        type1 == IF waiting.matched THEN "waiting_period" ELSE "general"
        type2 == IF coverage.matched THEN "coverage_limit" ELSE type1
        type3 == IF exclusion.matched THEN "exclusion" ELSE type2
        pieces == Split(exclusion.group1, ",")
    IN  [clause_type |-> type3,
         waiting_period |->
             IF waiting.matched THEN SomeInt(DigitsValue(waiting.group1)) ELSE NoneInt,
         coverage_limit |->
             IF coverage.matched THEN SomeInt(DigitsValue(Remove(coverage.group1, ",")))
             ELSE NoneInt,
         exclusions |->
             IF exclusion.matched THEN [k \in 1..Len(pieces) |-> Strip(pieces[k])]
             ELSE <<>>,
         conditions |-> <<>>]

(***************************************************************************)
(* Query entities, as the dict handed to evaluate_coverage_eligibility:    *)
(* a key may be missing, hold None, or hold a value.                       *)
(***************************************************************************)
MissingInt == [key |-> FALSE, set |-> FALSE, v |-> 0]
NullInt == [key |-> TRUE, set |-> FALSE, v |-> 0]
IntValue(n) == [key |-> TRUE, set |-> TRUE, v |-> n]

MissingStr == [key |-> FALSE, set |-> FALSE, v |-> <<>>]
NullStr == [key |-> TRUE, set |-> FALSE, v |-> <<>>]
StrValue(s) == [key |-> TRUE, set |-> TRUE, v |-> s]

(***************************************************************************)
(* Formatted messages (f-strings): the template and the values put in it.  *)
(***************************************************************************)
Message(template, numbers, text) ==
    [template |-> template, numbers |-> numbers, text |-> text]

EmptyMessage == Message("", <<>>, <<>>)

AgeTemplate == "Age {age} is outside the eligible range ({min_age}-{max_age} years)"
WaitingInfoTemplate ==
    "Policy is only {policy_months} months old, but {required_waiting} months waiting period is required for {condition}"
WaitingJustificationTemplate ==
    "Waiting period not met. Required: {required_waiting} months, Current: {policy_months} months"
ApprovedTemplate == "Coverage approved for {condition} with maximum amount of {max_coverage}"
NoCoverageTemplate == "No applicable coverage clauses found for the query"

(***************************************************************************)
(* ClauseMaster.evaluate_coverage_eligibility.                             *)
(***************************************************************************)
\* the evaluation dict as initialised at the top of the method
DefaultEvaluation ==
    [outcome |-> "returned",
     eligible |-> FALSE,
     decision |-> "rejected",
     amount |-> NoneInt,
     justification |-> EmptyMessage,
     waiting_period_info |-> EmptyMessage,
     exclusions |-> <<>>,
     confidence_score |-> 0]

\* the method raised instead of returning
Raised(exception) == [DefaultEvaluation EXCEPT !.outcome = exception]

\* "if age:" and the range test under it
AgeRejects(age) == Truthy(age) /\ (age.v < min_age \/ age.v > max_age)

\* any(term in condition for term in terms)
AnyIn(terms, condition) == \E k \in 1..Len(terms) : Contains(condition, terms[k])

\* variant of required_waiting: the medical-condition group is tested before the
\* surgery group
required_waiting_conditions_first(condition) ==
    IF AnyIn(coverage_types_medical_conditions, condition) THEN waiting_pre_existing
    ELSE IF AnyIn(coverage_types_surgery, condition) THEN waiting_surgery
    ELSE waiting_general

\* "Determine required waiting period"
required_waiting(condition) ==
    IF AnyIn(coverage_types_surgery, condition) THEN waiting_surgery
    ELSE IF AnyIn(coverage_types_medical_conditions, condition) THEN waiting_pre_existing
    ELSE waiting_general

\* "if policy_duration and condition:" on the value of policy_duration and the
\* lower-cased condition
WaitingChecked(policy_duration, condition) ==
    policy_duration.set /\ policy_duration.v # <<>> /\ condition # <<>>

\* the clause_info extract_clause_info returns for each matched clause, in order
clause_infos(clauses) ==
    [k \in 1..Len(clauses) |-> extract_clause_info(clauses[k].clause_content)]

\* variant of max_coverage: the last truthy coverage limit replaces the running
\* value instead of being compared with it
RECURSIVE max_coverage_overwritten(_)
max_coverage_overwritten(infos) ==
    IF infos = <<>> THEN 0
    ELSE IF Truthy(infos[Len(infos)].coverage_limit)
    THEN infos[Len(infos)].coverage_limit.v
    ELSE max_coverage_overwritten(SubSeq(infos, 1, Len(infos) - 1))

\* max_coverage after the loop over the matched clauses
RECURSIVE max_coverage(_)
max_coverage(infos) ==
    IF infos = <<>> THEN 0
    ELSE IF Truthy(infos[Len(infos)].coverage_limit)
    THEN Max({infos[Len(infos)].coverage_limit.v,
              max_coverage(SubSeq(infos, 1, Len(infos) - 1))})
    ELSE max_coverage(SubSeq(infos, 1, Len(infos) - 1))

\* applicable_clauses after the loop (a local of the method; not returned)
applicable_clauses(clauses, infos) ==
    LET kept == SelectSeq([k \in 1..Len(clauses) |->
                              [clause_id |-> clauses[k].clause_id,
                               applies |-> Truthy(infos[k].coverage_limit)]],
                          LAMBDA c : c.applies)
    IN  [k \in 1..Len(kept) |-> kept[k].clause_id]

\* evaluation["exclusions"] after the loop
RECURSIVE collected_exclusions(_)
collected_exclusions(infos) ==
    IF infos = <<>> THEN <<>>
    ELSE collected_exclusions(SubSeq(infos, 1, Len(infos) - 1))
             \o infos[Len(infos)].exclusions

\* variant of CoverageDecision: the rejection keeps the default confidence_score
CoverageDecision_default_confidence(condition, most, found) ==
    IF most > 0
    THEN [DefaultEvaluation EXCEPT
             !.eligible = TRUE,
             !.decision = "approved",
             !.amount = SomeInt(most),
             !.justification = Message(ApprovedTemplate, <<most>>, condition),
             !.exclusions = found,
             !.confidence_score = 8]
    ELSE [DefaultEvaluation EXCEPT
             !.justification = Message(NoCoverageTemplate, <<>>, <<>>),
             !.exclusions = found]

\* variant of CoverageDecision: a collected exclusion turns the approval into a
\* rejection
CoverageDecision_exclusions_reject(condition, most, found) ==
    IF most > 0 /\ found = <<>>
    THEN [DefaultEvaluation EXCEPT
             !.eligible = TRUE,
             !.decision = "approved",
             !.amount = SomeInt(most),
             !.justification = Message(ApprovedTemplate, <<most>>, condition),
             !.exclusions = found,
             !.confidence_score = 8]
    ELSE [DefaultEvaluation EXCEPT
             !.justification = Message(NoCoverageTemplate, <<>>, <<>>),
             !.exclusions = found,
             !.confidence_score = 3]

\* variant of CoverageDecision: the approval leaves eligible at its default
CoverageDecision_eligible_unset(condition, most, found) ==
    IF most > 0
    THEN [DefaultEvaluation EXCEPT
             !.decision = "approved",
             !.amount = SomeInt(most),
             !.justification = Message(ApprovedTemplate, <<most>>, condition),
             !.exclusions = found,
             !.confidence_score = 8]
    ELSE [DefaultEvaluation EXCEPT
             !.justification = Message(NoCoverageTemplate, <<>>, <<>>),
             !.exclusions = found,
             !.confidence_score = 3]

\* "Determine decision", from max_coverage and the exclusions the loop collected
CoverageDecision(condition, most, found) ==
    IF most > 0
    THEN [DefaultEvaluation EXCEPT
             !.eligible = TRUE,
             !.decision = "approved",
             !.amount = SomeInt(most),
             !.justification = Message(ApprovedTemplate, <<most>>, condition),
             !.exclusions = found,
             !.confidence_score = 8]
    ELSE [DefaultEvaluation EXCEPT
             !.justification = Message(NoCoverageTemplate, <<>>, <<>>),
             !.exclusions = found,
             !.confidence_score = 3]

\* "Check coverage limits from matched clauses": the loop, then the decision
CoverageStep(condition, infos) ==
    CoverageDecision(condition, max_coverage(infos), collected_exclusions(infos))

\* the early return of "Check waiting periods"
WaitingRejected(condition, policy_months, required) ==
    [DefaultEvaluation EXCEPT
        !.waiting_period_info =
            Message(WaitingInfoTemplate, <<policy_months, required>>, condition),
        !.justification =
            Message(WaitingJustificationTemplate, <<required, policy_months>>, <<>>)]

\* variant of WaitingDecision: a duration equal to the requirement is rejected too
WaitingDecision_inclusive(entities, condition, clauses) ==
    IF WaitingChecked(entities.policy_duration, condition)
       /\ ~IntParses(entities.policy_duration.v)
    THEN Raised("ValueError")
    ELSE IF WaitingChecked(entities.policy_duration, condition)
            /\ IntOf(entities.policy_duration.v) <= required_waiting(condition)
    THEN WaitingRejected(condition, IntOf(entities.policy_duration.v),
                         required_waiting(condition))
    ELSE CoverageStep(condition, clause_infos(clauses))

\* "Check waiting periods", then the coverage step
WaitingDecision(entities, condition, clauses) ==
    IF WaitingChecked(entities.policy_duration, condition)
       /\ ~IntParses(entities.policy_duration.v)
    THEN Raised("ValueError")
    ELSE IF WaitingChecked(entities.policy_duration, condition)
            /\ IntOf(entities.policy_duration.v) < required_waiting(condition)
    THEN WaitingRejected(condition, IntOf(entities.policy_duration.v),
                         required_waiting(condition))
    ELSE CoverageStep(condition, clause_infos(clauses))

evaluate_coverage_eligibility(entities, clauses) ==
    IF AgeRejects(entities.age)
    THEN [DefaultEvaluation EXCEPT
             !.justification = Message(AgeTemplate, <<entities.age.v, min_age, max_age>>, <<>>)]
    \* query_entities.get("condition", "").lower(): None has no lower()
    ELSE IF entities.condition.key /\ ~entities.condition.set
    THEN Raised("AttributeError")
    ELSE WaitingDecision(entities, Lower(entities.condition.v), clauses)

(***************************************************************************)
(* LLMService._fallback_entity_extraction.                                 *)
(***************************************************************************)
L_yr == <<"y", "r">>
L_old == <<"o", "l", "d">>
L_policy == <<"p", "o", "l", "i", "c", "y">>
L_male == <<"m", "a", "l", "e">>
L_female == <<"f", "e", "m", "a", "l", "e">>
L_man == <<"m", "a", "n">>
L_woman == <<"w", "o", "m", "a", "n">>
L_surgery == <<"s", "u", "r", "g", "e", "r", "y">>
L_operation == <<"o", "p", "e", "r", "a", "t", "i", "o", "n">>
L_Mumbai == <<"M", "u", "m", "b", "a", "i">>
L_Delhi == <<"D", "e", "l", "h", "i">>
L_Pune == <<"P", "u", "n", "e">>
L_Bangalore == <<"B", "a", "n", "g", "a", "l", "o", "r", "e">>
L_Chennai == <<"C", "h", "e", "n", "n", "a", "i">>
L_Kolkata == <<"K", "o", "l", "k", "a", "t", "a">>

\* medical_keywords and locations of _fallback_entity_extraction
fallback_medical_keywords ==
    <<L_surgery, L_operation, L_knee, L_hip, L_heart, L_cancer, L_diabetes>>
fallback_locations == <<L_Mumbai, L_Delhi, L_Pune, L_Bangalore, L_Chennai, L_Kolkata>>

\* \w of the regular expressions, on lower-cased text
IsWordChar(c) ==
    \/ IsDigit(c)
    \/ c = "_"
    \/ c \in {"a", "b", "c", "d", "e", "f", "g", "h", "i", "j", "k", "l", "m",
              "n", "o", "p", "q", "r", "s", "t", "u", "v", "w", "x", "y", "z"}

\* \b holds between positions i-1 and i
WordBoundary(s, i) ==
    (i - 1 >= 1 /\ IsWordChar(s[i - 1])) # (i <= Len(s) /\ IsWordChar(s[i]))

\* position after a greedy [\s-]* that starts at i
SkipSpacesDashes(s, i) ==
    Min({j \in i..(Len(s) + 1) : j = Len(s) + 1 \/ ~(IsSpace(s[j]) \/ s[j] = "-")})

\* r"(\d+)[\s-]*(?:<units>)s?[\s-]*(?:<tails>)" matched at i: position after, else 0
CountUnitTailEnd(s, i, units, tails) ==
    IF ~IsDigit(s[i]) THEN 0
    ELSE LET u == AfterAlternative(s, SkipSpacesDashes(s, SkipDigits(s, i)), units)
         IN  IF u = 0 THEN 0
             ELSE AfterAlternative(s, SkipSpacesDashes(s, SkipOptional(s, u, <<"s">>)),
                                   tails)

\* re.search(r'(\d+)[\s-]*(?:year|yr)s?[\s-]*old', query, re.IGNORECASE)
SearchAge(text) ==
    LET s == Lower(text)
        starts == {i \in 1..Len(s) : CountUnitTailEnd(s, i, <<L_year, L_yr>>, <<L_old>>) # 0}
    IN  IF starts = {} THEN NoMatch
        ELSE Match(SubSeq(text, Min(starts), SkipDigits(s, Min(starts)) - 1))

\* re.search(r'(\d+)[\s-]*(?:month|year|yr)s?[\s-]*(?:old|policy)', query, re.IGNORECASE)
SearchDuration(text) ==
    LET s == Lower(text)
        starts == {i \in 1..Len(s) :
                     CountUnitTailEnd(s, i, <<L_month, L_year, L_yr>>, <<L_old, L_policy>>) # 0}
    IN  IF starts = {} THEN NoMatch
        ELSE Match(SubSeq(text, Min(starts), SkipDigits(s, Min(starts)) - 1))

\* r'\b(male|female|man|woman)\b' matched at i: position after, else 0
RECURSIVE GenderEnd(_, _, _)
GenderEnd(s, i, words) ==
    IF words = <<>> THEN 0
    ELSE IF LitAt(s, i, Head(words)) /\ WordBoundary(s, i + Len(Head(words)))
         THEN i + Len(Head(words))
         ELSE GenderEnd(s, i, Tail(words))

\* re.search(r'\b(male|female|man|woman)\b', query, re.IGNORECASE)
SearchGender(text) ==
    LET s == Lower(text)
        words == <<L_male, L_female, L_man, L_woman>>
        starts == {i \in 1..Len(s) : WordBoundary(s, i) /\ GenderEnd(s, i, words) # 0}
    IN  IF starts = {} THEN NoMatch
        ELSE Match(SubSeq(text, Min(starts), GenderEnd(s, Min(starts), words) - 1))

\* "for keyword in keywords: if keyword.lower() in query.lower(): ...; break"
RECURSIVE FirstContained(_, _)
FirstContained(keywords, text) ==
    IF keywords = <<>> THEN NullStr
    ELSE IF Contains(Lower(text), Lower(Head(keywords))) THEN StrValue(Head(keywords))
    ELSE FirstContained(Tail(keywords), text)

\* the dict of the ExtractedEntities it returns: every field is a key, None when
\* nothing was extracted
_fallback_entity_extraction(text) ==
    LET age_match == SearchAge(text)
        gender_match == SearchGender(text)
        duration_match == SearchDuration(text)
    IN  [age |-> IF age_match.matched THEN IntValue(DigitsValue(age_match.group1))
                 ELSE NullInt,
         gender |-> IF gender_match.matched THEN StrValue(Lower(gender_match.group1))
                    ELSE NullStr,
         condition |-> FirstContained(fallback_medical_keywords, text),
         location |-> FirstContained(fallback_locations, text),
         policy_duration |-> IF duration_match.matched THEN StrValue(duration_match.group1)
                             ELSE NullStr,
         coverage_type |-> NullStr]

(***************************************************************************)
(* DocumentProcessor.extract_entities_from_query.                          *)
(***************************************************************************)
L_procedure == <<"p", "r", "o", "c", "e", "d", "u", "r", "e">>
L_treatment == <<"t", "r", "e", "a", "t", "m", "e", "n", "t">>
L_therapy == <<"t", "h", "e", "r", "a", "p", "y">>
L_joint == <<"j", "o", "i", "n", "t">>
L_asthma == <<"a", "s", "t", "h", "m", "a">>
L_Hyderabad == <<"H", "y", "d", "e", "r", "a", "b", "a", "d">>
L_Ahmedabad == <<"A", "h", "m", "e", "d", "a", "b", "a", "d">>
L_Jaipur == <<"J", "a", "i", "p", "u", "r">>
L_Lucknow == <<"L", "u", "c", "k", "n", "o", "w">>

\* medical_keywords: the word lists of the three patterns, in list order
medical_keywords ==
    <<<<L_surgery, L_operation, L_procedure, L_treatment, L_therapy>>,
      <<L_knee, L_hip, L_heart, L_brain, L_spine, L_joint>>,
      <<L_cancer, L_diabetes, L_hypertension, L_asthma>>>>

\* the words of location_pattern, lower-cased as re.IGNORECASE compares them
location_pattern ==
    <<Lower(L_Mumbai), Lower(L_Delhi), Lower(L_Bangalore), Lower(L_Chennai),
      Lower(L_Kolkata), Lower(L_Pune), Lower(L_Hyderabad), Lower(L_Ahmedabad),
      Lower(L_Jaipur), Lower(L_Lucknow)>>

\* re.search(r'\b(w1|w2|...)\b', query, re.IGNORECASE): the matched text
SearchWords(text, words) ==
    LET s == Lower(text)
        starts == {i \in 1..Len(s) : WordBoundary(s, i) /\ GenderEnd(s, i, words) # 0}
    IN  IF starts = {} THEN NoMatch
        ELSE Match(SubSeq(text, Min(starts), GenderEnd(s, Min(starts), words) - 1))

\* variant of SearchCondition: the three word lists are searched as one pattern,
\* so the match that starts earliest in the query wins
SearchCondition_earliest_in_text(text) ==
    SearchWords(text, medical_keywords[1] \o medical_keywords[2] \o medical_keywords[3])

\* "for pattern in medical_keywords: match = re.search(...); if match: ...; break"
SearchCondition(text) ==
    FirstMatch(SearchWords(text, medical_keywords[1]),
               FirstMatch(SearchWords(text, medical_keywords[2]),
                          SearchWords(text, medical_keywords[3])))

\* the dict it returns: a key is present only when its pattern matched
extract_entities_from_query(text) ==
    LET age_match == SearchAge(text)
        gender_match == SearchGender(text)
        condition_match == SearchCondition(text)
        location_match == SearchWords(text, location_pattern)
        duration_match == SearchDuration(text)
    IN  [age |-> IF age_match.matched THEN IntValue(DigitsValue(age_match.group1))
                 ELSE MissingInt,
         gender |-> IF gender_match.matched THEN StrValue(Lower(gender_match.group1))
                    ELSE MissingStr,
         condition |-> IF condition_match.matched THEN StrValue(condition_match.group1)
                       ELSE MissingStr,
         location |-> IF location_match.matched THEN StrValue(location_match.group1)
                      ELSE MissingStr,
         policy_duration |-> IF duration_match.matched THEN StrValue(duration_match.group1)
                             ELSE MissingStr]

(***************************************************************************)
(* schemas.InsuranceDecision and LLMService.analyze_insurance_query with   *)
(* its fallback.  confidence_score is in tenths.                           *)
(***************************************************************************)
\* schemas.DecisionType
DecisionType == {"approved", "rejected", "pending", "partial"}

\* the fields of an InsuranceDecision
InsuranceDecision(value, amount, justification, mapped, confidence, info, exclusions) ==
    [decision |-> value,
     amount |-> amount,
     justification |-> justification,
     mapped_clauses |-> mapped,
     confidence_score |-> confidence,
     waiting_period_info |-> info,
     exclusions |-> exclusions]

NoDecision ==
    InsuranceDecision("", NoneInt, EmptyMessage, <<>>, NoneInt, EmptyMessage, <<>>)

\* variant of Validates: confidence_score without Field(ge=0.0, le=1.0)
Validates_unconstrained(body) ==
    /\ body.decision \in DecisionType
    /\ body.confidence_score.set

\* pydantic accepts the dict as an InsuranceDecision: decision is a DecisionType,
\* confidence_score is given and 0.0 <= confidence_score <= 1.0
Validates(body) ==
    /\ body.decision \in DecisionType
    /\ body.confidence_score.set
    /\ body.confidence_score.v >= 0
    /\ body.confidence_score.v <= 10

\* variant of mapped_clause_ids: the ids of the clauses that contributed a limit
mapped_clause_ids_applicable(clauses) ==
    LET ids == applicable_clauses(clauses, clause_infos(clauses))
    IN  SubSeq(ids, 1, IF Len(ids) < 3 THEN Len(ids) ELSE 3)

\* [clause["clause_id"] for clause in matched_clauses[:3]]
mapped_clause_ids(clauses) ==
    LET first == SubSeq(clauses, 1, IF Len(clauses) < 3 THEN Len(clauses) ELSE 3)
    IN  [k \in 1..Len(first) |-> first[k].clause_id]

\* what a call returns: the exception it raised, or the decision and the branch
\* that built it
Outcome(outcome, by, value) == [outcome |-> outcome, by |-> by, value |-> value]

\* "if evaluation['eligible']: ... else: ...", then InsuranceDecision(...); an
\* exception of the evaluation propagates
DecisionOf(result, mapped) ==
    IF result.outcome # "returned"
    THEN Outcome(result.outcome, "fallback", NoDecision)
    ELSE Outcome("returned", "fallback",
                 InsuranceDecision(result.decision, result.amount, result.justification,
                                   mapped, SomeInt(result.confidence_score),
                                   result.waiting_period_info, result.exclusions))

\* extract the entities, evaluate them against the matched clauses, build the decision
_fallback_decision(text, clauses) ==
    DecisionOf(evaluate_coverage_eligibility(_fallback_entity_extraction(text), clauses),
               mapped_clause_ids(clauses))

\* variant of analyze_insurance_query: a reply that is a JSON object is returned
\* without validation
analyze_insurance_query_unvalidated(text, clauses, reply) ==
    IF reply.kind = "json_object"
    THEN Outcome("returned", "llm", reply.body)
    ELSE _fallback_decision(text, clauses)

\* the reply of self.llm(messages): the call raises, or response.content is not
\* JSON, or is JSON but no object, or is a JSON object (body)
analyze_insurance_query(text, clauses, reply) ==
    IF reply.kind = "json_object" /\ Validates(reply.body)
    THEN Outcome("returned", "llm", reply.body)
    ELSE _fallback_decision(text, clauses)

(***************************************************************************)
(* ClauseMaster.match_clauses_to_query.  A relevance score is a fraction   *)
(* num/den with den = 10 * len(query_words) (10 when the query has no      *)
(* words), so that 0.1, 0.2 and 0.3 and every common/len(query_words) are  *)
(* whole numbers of units; the scores of one call share den.               *)
(***************************************************************************)
\* str.split(): the maximal runs of non-whitespace characters, as a set
Words(s) ==
    {SubSeq(s, p[1], p[2]) :
        p \in {r \in (1..Len(s)) \X (1..Len(s)) :
                 /\ r[1] <= r[2]
                 /\ \A k \in r[1]..r[2] : ~IsSpace(s[k])
                 /\ (r[1] = 1 \/ IsSpace(s[r[1] - 1]))
                 /\ (r[2] = Len(s) \/ IsSpace(s[r[2] + 1]))}}

\* medical_terms and locations of match_clauses_to_query
match_medical_terms == <<L_surgery, L_knee, L_hip, L_heart, L_cancer, L_diabetes>>
match_locations ==
    <<Lower(L_Mumbai), Lower(L_Delhi), Lower(L_Pune), Lower(L_Bangalore), Lower(L_Chennai)>>

\* how many of the terms are "in query_lower and in clause_content"
TermsInBoth(terms, query_lower, content_lower) ==
    Cardinality({k \in 1..Len(terms) :
                    Contains(query_lower, terms[k]) /\ Contains(content_lower, terms[k])})

\* the denominator of the scores of a call
ScoreDen(query_lower) ==
    IF Words(query_lower) = {} THEN 10 ELSE 10 * Cardinality(Words(query_lower))

\* relevance_score before the threshold test, in units of 1/ScoreDen: the share of
\* the query words found among the clause words ("if common_words:" guards the
\* division), plus 0.3 per medical term and 0.2 per location
relevance_units(query_lower, content_lower) ==
    10 * Cardinality(Words(query_lower) \cap Words(content_lower))
        + (ScoreDen(query_lower) \div 10)
              * (3 * TermsInBoth(match_medical_terms, query_lower, content_lower)
                 + 2 * TermsInBoth(match_locations, query_lower, content_lower))

NoScore == [set |-> FALSE, num |-> 0, den |-> 1]
Score(num, den) == [set |-> TRUE, num |-> num, den |-> den]

\* variant of Keeps: the threshold is inclusive
Keeps_inclusive(units, den) == 10 * units >= den

\* "if relevance_score > 0.1"
Keeps(units, den) == 10 * units > den

\* variant of ClampedScore: the score is stored as computed
ClampedScore_unclamped(units, den) == Score(units, den)

\* min(relevance_score, 1.0)
ClampedScore(units, den) == Score(IF units < den THEN units ELSE den, den)

\* the clause dict after the loop body: annotated when it is kept
AnnotatedClause(clause, units, den) ==
    IF Keeps(units, den)
    THEN [clause EXCEPT !.relevance_score = ClampedScore(units, den)]
    ELSE clause

\* the clauses argument after the call: the kept dicts carry relevance_score
annotated_clauses(text, clause_list) ==
    [k \in 1..Len(clause_list) |->
        AnnotatedClause(clause_list[k],
                        relevance_units(Lower(text), Lower(clause_list[k].clause_content)),
                        ScoreDen(Lower(text)))]

\* which positions of the clauses argument are appended to matched_clauses
KeptPositions(text, clause_list) ==
    {k \in 1..Len(clause_list) :
        Keeps(relevance_units(Lower(text), Lower(clause_list[k].clause_content)),
              ScoreDen(Lower(text)))}

\* variant of AppendedClauses: the append is outside the threshold test, so every
\* clause is appended
RECURSIVE AppendedClauses_every_clause(_, _)
AppendedClauses_every_clause(annotated, kept) ==
    IF annotated = <<>> THEN <<>>
    ELSE AppendedClauses_every_clause(SubSeq(annotated, 1, Len(annotated) - 1), kept)
             \o <<annotated[Len(annotated)]>>

\* matched_clauses before the sort: the kept dicts in input order
RECURSIVE AppendedClauses(_, _)
AppendedClauses(annotated, kept) ==
    IF annotated = <<>> THEN <<>>
    ELSE AppendedClauses(SubSeq(annotated, 1, Len(annotated) - 1), kept)
             \o (IF Len(annotated) \in kept THEN <<annotated[Len(annotated)]>> ELSE <<>>)

\* variant of InsertByScore: the clause goes before the clauses of equal score
InsertByScore_before_equal(sorted, clause) ==
    LET k == Cardinality({i \in 1..Len(sorted) :
                            sorted[i].relevance_score.num > clause.relevance_score.num})
    IN  SubSeq(sorted, 1, k) \o <<clause>> \o SubSeq(sorted, k + 1, Len(sorted))

\* one step of the stable descending sort: the clause goes after every clause of
\* greater or equal score
InsertByScore(sorted, clause) ==
    LET k == Cardinality({i \in 1..Len(sorted) :
                            sorted[i].relevance_score.num >= clause.relevance_score.num})
    IN  SubSeq(sorted, 1, k) \o <<clause>> \o SubSeq(sorted, k + 1, Len(sorted))

\* matched_clauses.sort(key=relevance_score, reverse=True): stable
RECURSIVE SortedByScore(_)
SortedByScore(appended) ==
    IF appended = <<>> THEN <<>>
    ELSE InsertByScore(SortedByScore(SubSeq(appended, 1, Len(appended) - 1)),
                       appended[Len(appended)])

match_clauses_to_query(text, clause_list) ==
    SortedByScore(AppendedClauses(annotated_clauses(text, clause_list),
                                  KeptPositions(text, clause_list)))

(***************************************************************************)
(* Clause texts.                                                           *)
(***************************************************************************)
\* "12 months waiting"
T_months_waiting ==
    <<"1", "2", " ", "m", "o", "n", "t", "h", "s", " ", "w", "a", "i", "t", "i", "n", "g">>

\* "waiting period of 3 years"
T_waiting_period_of ==
    <<"w", "a", "i", "t", "i", "n", "g", " ", "p", "e", "r", "i", "o", "d", " ", "o", "f", " ",
    "3", " ", "y", "e", "a", "r", "s">>

\* "5 lakh"
T_lakh ==
    <<"5", " ", "l", "a", "k", "h">>

\* "Exclusions: a, b"
T_exclusions ==
    <<"E", "x", "c", "l", "u", "s", "i", "o", "n", "s", ":", " ", "a", ",", " ", "b">>

\* "not covered: x"
T_not_covered ==
    <<"n", "o", "t", " ", "c", "o", "v", "e", "r", "e", "d", ":", " ", "x">>

\* "covered"
T_covered ==
    <<"c", "o", "v", "e", "r", "e", "d">>

\* "2,50,000 Lakh"
T_commas_lakh ==
    <<"2", ",", "5", "0", ",", "0", "0", "0", " ", "L", "a", "k", "h">>

\* "0 lac"
T_zero_lac ==
    <<"0", " ", "l", "a", "c">>

\* "\n"
T_newline ==
    <<"\n">>

\* the mock clauses of test_system.py
T_mock_surgical ==
    <<"K", "n", "e", "e", " ", "s", "u", "r", "g", "e", "r", "y", " ", "i", "s", " ", "c", "o",
    "v", "e", "r", "e", "d", " ", "u", "n", "d", "e", "r", " ", "t", "h", "i", "s", " ", "p",
    "o", "l", "i", "c", "y", " ", "w", "i", "t", "h", " ", "a", " ", "m", "a", "x", "i", "m",
    "u", "m", " ", "c", "o", "v", "e", "r", "a", "g", "e", " ", "o", "f", " ", "5", "0", "0",
    ",", "0", "0", "0", " ", "r", "u", "p", "e", "e", "s", ".", " ", "W", "a", "i", "t", "i",
    "n", "g", " ", "p", "e", "r", "i", "o", "d", " ", "o", "f", " ", "1", "2", " ", "m", "o",
    "n", "t", "h", "s", " ", "a", "p", "p", "l", "i", "e", "s", " ", "f", "o", "r", " ", "s",
    "u", "r", "g", "i", "c", "a", "l", " ", "p", "r", "o", "c", "e", "d", "u", "r", "e", "s",
    ".">>

Fragments ==
    {T_months_waiting, T_waiting_period_of, T_lakh, T_exclusions, T_not_covered,
     T_covered, T_commas_lakh, T_zero_lac, T_newline,
     \* "3 years waiting"
     <<"3", " ", "y", "e", "a", "r", "s", " ", "w", "a", "i", "t", "i", "n", "g">>,
     \* "coverage limit 1,000"
     <<"c", "o", "v", "e", "r", "a", "g", "e", " ", "l", "i", "m", "i", "t", " ", "1",
       ",", "0", "0", "0">>,
     \* " "
     <<" ">>}

\* all sequences over S of length at most n
SeqsUpTo(S, n) == UNION {[1..k -> S] : k \in 0..n}

RECURSIVE Concat(_)
Concat(parts) == IF parts = <<>> THEN <<>> ELSE Head(parts) \o Concat(Tail(parts))

ClauseTexts ==
    {Concat(parts) : parts \in SeqsUpTo(Fragments, MaxParts)}
        \cup {T_mock_surgical,
              \* the second mock clause of test_system.py
              <<"A", " ", "w", "a", "i", "t", "i", "n", "g", " ", "p", "e", "r", "i",
                "o", "d", " ", "o", "f", " ", "1", "2", " ", "m", "o", "n", "t", "h",
                "s", " ", "i", "s", " ", "a", "p", "p", "l", "i", "c", "a", "b", "l",
                "e", " ", "f", "o", "r", " ", "a", "l", "l", " ", "s", "u", "r", "g",
                "i", "c", "a", "l", " ", "p", "r", "o", "c", "e", "d", "u", "r", "e",
                "s", " ", "i", "n", "c", "l", "u", "d", "i", "n", "g", " ", "k", "n",
                "e", "e", " ", "s", "u", "r", "g", "e", "r", "y", ",", " ", "h", "i",
                "p", " ", "r", "e", "p", "l", "a", "c", "e", "m", "e", "n", "t", ",",
                " ", "a", "n", "d", " ", "c", "a", "r", "d", "i", "a", "c", " ", "p", "r",
                "o", "c", "e", "d", "u", "r", "e", "s", ".">>}

\* "5 lakh\nnot covered: x"
T_lakh_not_covered == T_lakh \o T_newline \o T_not_covered

(***************************************************************************)
(* Clause records and query entities the evaluation is run on.             *)
(***************************************************************************)
Clause(id, content) == [clause_id |-> id, clause_content |-> content]

Catalogue ==
    {Clause("c1", T_lakh), Clause("c2", T_commas_lakh), Clause("c3", T_zero_lac),
     Clause("c4", T_exclusions), Clause("c5", T_lakh_not_covered)}

Ages ==
    {NullInt, IntValue(0), IntValue(17), IntValue(18), IntValue(65), IntValue(66)}

Conditions ==
    {MissingStr, NullStr, StrValue(<<>>),
     StrValue(<<"K", "n", "e", "e", " ", "s", "u", "r", "g", "e", "r", "y">>),
     StrValue(<<"d", "i", "a", "b", "e", "t", "e", "s">>),
     StrValue(<<"a", "s", "t", "h", "m", "a">>),
     \* "Diabetes, hip"
     StrValue(<<"D", "i", "a", "b", "e", "t", "e", "s", ",", " ", "h", "i", "p">>),
     StrValue(L_surgery)}

PolicyDurations ==
    {NullStr, StrValue(<<>>), StrValue(<<"2">>), StrValue(<<"3">>),
     StrValue(<<"6">>), StrValue(<<"1", "2">>), StrValue(<<"2", "4">>),
     StrValue(<<"3", "0">>), StrValue(<<"6", " ", "m", "o", "n", "t", "h", "s">>)}

QueryEntities ==
    [age : Ages, condition : Conditions, policy_duration : PolicyDurations]

\* inputs of the two-run comparison
PairCatalogue ==
    {Clause("c1", T_lakh), Clause("c2", T_commas_lakh), Clause("c4", T_exclusions),
     Clause("c5", T_lakh_not_covered), Clause("c6", T_covered)}

PairEntities ==
    [age : {NullInt, IntValue(17), IntValue(18)},
     condition : {MissingStr, NullStr,
                  StrValue(<<"K", "n", "e", "e", " ", "s", "u", "r", "g", "e", "r", "y">>)},
     policy_duration : {NullStr, StrValue(<<"6">>), StrValue(<<"1", "2">>)}]

\* pairs of clauses that yield the same coverage limit
SameLimitPairs ==
    {p \in PairCatalogue \X PairCatalogue :
        extract_clause_info(p[1].clause_content).coverage_limit
            = extract_clause_info(p[2].clause_content).coverage_limit}

\* inputs of analyze_insurance_query
Q_test ==
    <<"4", "6", "-", "y", "e", "a", "r", "-", "o", "l", "d", " ", "m", "a", "l", "e", ",",
      " ", "k", "n", "e", "e", " ", "s", "u", "r", "g", "e", "r", "y", " ", "i", "n", " ",
      "P", "u", "n", "e", ",", " ", "3", "-", "m", "o", "n", "t", "h", "-", "o", "l", "d",
      " ", "i", "n", "s", "u", "r", "a", "n", "c", "e", " ", "p", "o", "l", "i", "c", "y">>
Queries ==
    {Q_test,
     \* "hello"
     <<"h", "e", "l", "l", "o">>,
     \* "70 year old woman, diabetes"
     <<"7", "0", " ", "y", "e", "a", "r", " ", "o", "l", "d", " ", "w", "o", "m", "a",
       "n", ",", " ", "d", "i", "a", "b", "e", "t", "e", "s">>,
     \* "Hip operation in Delhi"
     <<"H", "i", "p", " ", "o", "p", "e", "r", "a", "t", "i", "o", "n", " ", "i",
       "n", " ", "D", "e", "l", "h", "i">>,
     \* "knee, 2 months policy"
     <<"k", "n", "e", "e", ",", " ", "2", " ", "m", "o", "n", "t", "h", "s", " ", "p",
       "o", "l", "i", "c", "y">>}

AnalyzeCatalogue == {Clause("c1", T_lakh), Clause("c4", T_exclusions)}

LLMJustification == Message("justification written by the LLM", <<>>, <<>>)

LLMBodies ==
    {InsuranceDecision(d, IF d = "approved" THEN SomeInt(7) ELSE NoneInt,
                       LLMJustification, m, c, EmptyMessage, <<>>) :
        d \in {"approved", "pending", "maybe", ""},
        m \in {<<"c1">>, <<"c9">>},
        c \in {NoneInt, SomeInt(0 - 1), SomeInt(0), SomeInt(10), SomeInt(11)}}

LLMReplies ==
    {[kind |-> k, body |-> NoDecision] : k \in {"raises", "not_json", "json_not_object"}}
        \cup {[kind |-> "json_object", body |-> b] : b \in LLMBodies}

(***************************************************************************)
(* Queries and clauses match_clauses_to_query is run on.                   *)
(***************************************************************************)
\* "a b c d e f g h i j"
MQ_ten ==
    <<"a", " ", "b", " ", "c", " ", "d", " ", "e", " ", "f", " ", "g", " ", "h", " ", "i",
    " ", "j">>

\* "Knee surgery in Pune"
MQ_knee ==
    <<"K", "n", "e", "e", " ", "s", "u", "r", "g", "e", "r", "y", " ", "i", "n", " ", "P",
    "u", "n", "e">>

\* "heart cancer knee surgery pune delhi"
MQ_many ==
    <<"h", "e", "a", "r", "t", " ", "c", "a", "n", "c", "e", "r", " ", "k", "n", "e", "e",
    " ", "s", "u", "r", "g", "e", "r", "y", " ", "p", "u", "n", "e", " ", "d", "e", "l",
    "h", "i">>

MatchQueries ==
    {MQ_ten, MQ_knee, MQ_many,
     \* the empty query
     <<>>,
     \* "a b c d e"
     <<"a", " ", "b", " ", "c", " ", "d", " ", "e">>}

\* a clause dict that carries no relevance_score yet
MatchClause(id, content) ==
    [clause_id |-> id, clause_content |-> content, relevance_score |-> NoScore]

MatchCatalogue ==
    {\* "a"
     MatchClause("m1",
                 <<"a">>),
     \* "a z"
     MatchClause("m2",
                 <<"a", " ", "z">>),
     \* "a b"
     MatchClause("m3",
                 <<"a", " ", "b">>),
     \* "knee surgery"
     MatchClause("m4",
                 <<"k", "n", "e", "e", " ", "s", "u", "r", "g", "e", "r", "y">>),
     \* "Surgery in Pune"
     MatchClause("m5",
                 <<"S", "u", "r", "g", "e", "r", "y", " ", "i", "n", " ", "P", "u", "n",
                   "e">>),
     \* "heart cancer knee surgery pune delhi"
     MatchClause("m6",
                 <<"h", "e", "a", "r", "t", " ", "c", "a", "n", "c", "e", "r", " ", "k",
                   "n", "e", "e", " ", "s", "u", "r", "g", "e", "r", "y", " ", "p", "u",
                   "n", "e", " ", "d", "e", "l", "h", "i">>),
     \* "z"
     MatchClause("m7",
                 <<"z">>),
     \* "diabetes-knee"
     MatchClause("m8",
                 <<"d", "i", "a", "b", "e", "t", "e", "s", "-", "k", "n", "e", "e">>)}

(***************************************************************************)
(* Query texts the rule-based entity extraction is run on.                 *)
(***************************************************************************)
QueryFragments ==
    {\* "46-year-old male, "
     <<"4", "6", "-", "y", "e", "a", "r", "-", "o", "l", "d", " ", "m", "a", "l", "e",
       ",", " ">>,
     \* "knee surgery in Pune, "
     <<"k", "n", "e", "e", " ", "s", "u", "r", "g", "e", "r", "y", " ", "i", "n", " ",
       "P", "u", "n", "e", ",", " ">>,
     \* "3-month-old insurance policy"
     <<"3", "-", "m", "o", "n", "t", "h", "-", "o", "l", "d", " ", "i", "n", "s", "u",
       "r", "a", "n", "c", "e", " ", "p", "o", "l", "i", "c", "y">>,
     \* "hello "
     <<"h", "e", "l", "l", "o", " ">>,
     \* "24 months policy "
     <<"2", "4", " ", "m", "o", "n", "t", "h", "s", " ", "p", "o", "l", "i", "c",
       "y", " ">>,
     \* "woman with diabetes "
     <<"w", "o", "m", "a", "n", " ", "w", "i", "t", "h", " ", "d", "i", "a", "b", "e",
       "t", "e", "s", " ">>,
     \* "0 yr old "
     <<"0", " ", "y", "r", " ", "o", "l", "d", " ">>,
     \* "heart operation, DELHI "
     <<"h", "e", "a", "r", "t", " ", "o", "p", "e", "r", "a", "t", "i", "o", "n",
       ",", " ", "D", "E", "L", "H", "I", " ">>,
     \* "asthma treatment in Hyderabad "
     <<"a", "s", "t", "h", "m", "a", " ", "t", "r", "e", "a", "t", "m", "e", "n", "t", " ", "i", "n", " ", "H", "y", "d", "e", "r", "a", "b", "a", "d", " ">>,
     \* "Pune or Mumbai "
     <<"P", "u", "n", "e", " ", "o", "r", " ", "M", "u", "m", "b", "a", "i", " ">>,
     \* "kneecap Surgery "
     <<"k", "n", "e", "e", "c", "a", "p", " ", "S", "u", "r", "g", "e", "r", "y", " ">>}

EntityQueries ==
    {Concat(parts) : parts \in SeqsUpTo(QueryFragments, MaxParts)} \cup Queries

(***************************************************************************)
(* Values of the variables an operation does not use.                      *)
(***************************************************************************)
NoInfo ==
    [clause_type |-> "", waiting_period |-> NoneInt, coverage_limit |-> NoneInt,
     exclusions |-> <<>>, conditions |-> <<>>]

(***************************************************************************)
(* extract_clause_info applied to one clause text.                         *)
(***************************************************************************)
InitExtract ==
    /\ pc = "call"
    /\ input_clauses = <<>>
    /\ extracted_entities = <<>>
    /\ clause_content \in ClauseTexts
    /\ clause_info = NoInfo
    /\ query_entities = <<>>
    /\ matched_clauses = <<>>
    /\ evaluation = <<>>
    /\ other_clauses = <<>>
    /\ other_evaluation = <<>>
    /\ query = <<>>
    /\ llm_reply = <<>>
    /\ decision = <<>>

ExtractClauseInfo ==
    /\ pc = "call"
    /\ clause_info' = extract_clause_info(clause_content)
    /\ pc' = "done"
    /\ UNCHANGED <<input_clauses, extracted_entities,
                   clause_content, query_entities, matched_clauses, evaluation,
                   other_clauses, other_evaluation, query, llm_reply, decision>>

NextExtract == ExtractClauseInfo

SpecExtract == InitExtract /\ [][NextExtract]_vars

(***************************************************************************)
(* evaluate_coverage_eligibility applied to one entity dict and one clause *)
(* list.                                                                   *)
(***************************************************************************)
Init ==
    /\ pc = "call"
    /\ input_clauses = <<>>
    /\ extracted_entities = <<>>
    /\ query_entities \in QueryEntities
    /\ matched_clauses \in SeqsUpTo(Catalogue, MaxClauses)
    /\ evaluation = DefaultEvaluation
    /\ clause_content = <<>>
    /\ clause_info = NoInfo
    /\ other_clauses = <<>>
    /\ other_evaluation = <<>>
    /\ query = <<>>
    /\ llm_reply = <<>>
    /\ decision = <<>>

EvaluateCoverage ==
    /\ pc = "call"
    /\ evaluation' = evaluate_coverage_eligibility(query_entities, matched_clauses)
    /\ pc' = "done"
    /\ UNCHANGED <<input_clauses, extracted_entities,
                   clause_content, clause_info, query_entities, matched_clauses,
                   other_clauses, other_evaluation, query, llm_reply, decision>>

Next == EvaluateCoverage

Spec == Init /\ [][Next]_vars

(***************************************************************************)
(* Two runs of evaluate_coverage_eligibility on the same entities and on   *)
(* clause lists with the same coverage limits.                             *)
(***************************************************************************)
InitPair ==
    /\ pc = "call"
    /\ input_clauses = <<>>
    /\ extracted_entities = <<>>
    /\ \E pairs \in SeqsUpTo(SameLimitPairs, MaxClauses) :
           /\ matched_clauses = [k \in 1..Len(pairs) |-> pairs[k][1]]
           /\ other_clauses = [k \in 1..Len(pairs) |-> pairs[k][2]]
    /\ query_entities \in PairEntities
    /\ evaluation = DefaultEvaluation
    /\ other_evaluation = DefaultEvaluation
    /\ clause_content = <<>>
    /\ clause_info = NoInfo
    /\ query = <<>>
    /\ llm_reply = <<>>
    /\ decision = <<>>

EvaluateBoth ==
    /\ pc = "call"
    /\ evaluation' = evaluate_coverage_eligibility(query_entities, matched_clauses)
    /\ other_evaluation' = evaluate_coverage_eligibility(query_entities, other_clauses)
    /\ pc' = "done"
    /\ UNCHANGED <<input_clauses, extracted_entities,
                   clause_content, clause_info, query_entities, matched_clauses,
                   other_clauses, query, llm_reply, decision>>

NextPair == EvaluateBoth

SpecPair == InitPair /\ [][NextPair]_vars

(***************************************************************************)
(* analyze_insurance_query applied to one query, one clause list and one   *)
(* behaviour of the LLM call.                                              *)
(***************************************************************************)
InitAnalyze ==
    /\ pc = "call"
    /\ input_clauses = <<>>
    /\ extracted_entities = <<>>
    /\ query \in Queries
    /\ matched_clauses \in SeqsUpTo(AnalyzeCatalogue, MaxMatched)
    /\ llm_reply \in LLMReplies
    /\ decision = Outcome("", "", NoDecision)
    /\ clause_content = <<>>
    /\ clause_info = NoInfo
    /\ query_entities = <<>>
    /\ evaluation = DefaultEvaluation
    /\ other_clauses = <<>>
    /\ other_evaluation = <<>>

\* the LLM's reply parses and validates: it is the decision
AnalyzeReturnsLLMDecision ==
    /\ pc = "call"
    /\ llm_reply.kind = "json_object" /\ Validates(llm_reply.body)
    /\ decision' = analyze_insurance_query(query, matched_clauses, llm_reply)
    /\ pc' = "done"
    /\ UNCHANGED <<input_clauses, extracted_entities,
                   clause_content, clause_info, query_entities, matched_clauses,
                   evaluation, other_clauses, other_evaluation, query, llm_reply>>

\* the call raised, or the reply did not parse or validate: the fallback decides
AnalyzeFallsBack ==
    /\ pc = "call"
    /\ ~(llm_reply.kind = "json_object" /\ Validates(llm_reply.body))
    /\ decision' = analyze_insurance_query(query, matched_clauses, llm_reply)
    /\ pc' = "done"
    /\ UNCHANGED <<input_clauses, extracted_entities,
                   clause_content, clause_info, query_entities, matched_clauses,
                   evaluation, other_clauses, other_evaluation, query, llm_reply>>

NextAnalyze == AnalyzeReturnsLLMDecision \/ AnalyzeFallsBack

SpecAnalyze == InitAnalyze /\ [][NextAnalyze]_vars

(***************************************************************************)
(* _fallback_entity_extraction run once on a query text; query_entities is *)
(* the dict of the ExtractedEntities it returns.                           *)
(***************************************************************************)
InitEntities ==
    /\ pc = "call"
    /\ input_clauses = <<>>
    /\ extracted_entities = <<>>
    /\ query \in EntityQueries
    /\ query_entities = <<>>
    /\ matched_clauses = <<>>
    /\ clause_content = <<>>
    /\ clause_info = NoInfo
    /\ evaluation = <<>>
    /\ other_clauses = <<>>
    /\ other_evaluation = <<>>
    /\ llm_reply = <<>>
    /\ decision = <<>>

ExtractEntities ==
    /\ pc = "call"
    /\ query_entities' = _fallback_entity_extraction(query)
    /\ pc' = "done"
    /\ UNCHANGED <<input_clauses, extracted_entities,
                   clause_content, clause_info, matched_clauses,
                   evaluation, other_clauses, other_evaluation, query, llm_reply,
                   decision>>

NextEntities == ExtractEntities

SpecEntities == InitEntities /\ [][NextEntities]_vars

(***************************************************************************)
(* match_clauses_to_query run once on a query and a list of clauses.       *)
(***************************************************************************)
InitMatch ==
    /\ pc = "call"
    /\ query \in MatchQueries
    /\ input_clauses \in SeqsUpTo(MatchCatalogue, MaxClauses)
    /\ extracted_entities = <<>>
    /\ matched_clauses = <<>>
    /\ clause_content = <<>>
    /\ clause_info = NoInfo
    /\ query_entities = <<>>
    /\ evaluation = <<>>
    /\ other_clauses = <<>>
    /\ other_evaluation = <<>>
    /\ llm_reply = <<>>
    /\ decision = <<>>

MatchClauses ==
    /\ pc = "call"
    /\ matched_clauses' = match_clauses_to_query(query, input_clauses)
    /\ input_clauses' = annotated_clauses(query, input_clauses)
    /\ pc' = "done"
    /\ UNCHANGED <<extracted_entities, clause_content, clause_info, query_entities,
                   evaluation, other_clauses, other_evaluation, query, llm_reply,
                   decision>>

NextMatch == MatchClauses

SpecMatch == InitMatch /\ [][NextMatch]_vars

(***************************************************************************)
(* The two rule-based entity extractions applied to the same query, in     *)
(* either order: DocumentProcessor.extract_entities_from_query and         *)
(* LLMService._fallback_entity_extraction.                                 *)
(***************************************************************************)
InitQuery ==
    /\ pc = "call"
    /\ input_clauses = <<>>
    /\ extracted_entities = <<>>
    /\ query \in EntityQueries
    /\ query_entities = <<>>
    /\ matched_clauses = <<>>
    /\ clause_content = <<>>
    /\ clause_info = NoInfo
    /\ evaluation = <<>>
    /\ other_clauses = <<>>
    /\ other_evaluation = <<>>
    /\ llm_reply = <<>>
    /\ decision = <<>>

ExtractEntitiesFromQuery ==
    /\ extracted_entities = <<>>
    /\ extracted_entities' = extract_entities_from_query(query)
    /\ pc' = IF query_entities = <<>> THEN "call" ELSE "done"
    /\ UNCHANGED <<input_clauses, query_entities, clause_content, clause_info,
                   matched_clauses, evaluation, other_clauses, other_evaluation, query,
                   llm_reply, decision>>

FallbackEntityExtraction ==
    /\ query_entities = <<>>
    /\ query_entities' = _fallback_entity_extraction(query)
    /\ pc' = IF extracted_entities = <<>> THEN "call" ELSE "done"
    /\ UNCHANGED <<input_clauses, extracted_entities, clause_content, clause_info,
                   matched_clauses, evaluation, other_clauses, other_evaluation, query,
                   llm_reply, decision>>

NextQuery == ExtractEntitiesFromQuery \/ FallbackEntityExtraction

SpecQuery == InitQuery /\ [][NextQuery]_vars

(***************************************************************************)
(* Numbers with units: extract_clause_info on a clause text, and the two   *)
(* calls _fallback_decision makes on a query, _fallback_entity_extraction  *)
(* and then evaluate_coverage_eligibility on the entities it extracted.    *)
(***************************************************************************)
\* clause texts "<N> <unit> waiting", "waiting period of <N> <unit>" and
\* "<N> <magnitude>"
UnitClauseTexts ==
    {n \o <<" ">> \o u \o <<" ">> \o L_waiting :
        n \in {<<"3">>, <<"1", "2">>}, u \in {L_month, L_year, <<"m", "o", "n", "t", "h", "s">>, <<"y", "e", "a", "r", "s">>}}
    \cup {L_waiting \o <<" ">> \o L_period \o <<" ">> \o L_of \o <<" ">> \o n \o <<" ">> \o u :
        n \in {<<"3">>, <<"1", "2">>}, u \in {<<"m", "o", "n", "t", "h", "s">>, <<"y", "e", "a", "r", "s">>}}
    \cup {n \o <<" ">> \o m :
        n \in {<<"5">>, <<"2", ",", "5", "0", "0">>},
        m \in {L_lakh, L_lac, L_thousand, L_million}}

\* queries "knee, <N> <unit> policy" and "knee, <N>-<unit>-old policy"
UnitQueries ==
    {L_knee \o <<",", " ">> \o n \o <<" ">> \o u \o <<" ">> \o L_policy :
        n \in {<<"1">>, <<"2">>, <<"1", "2">>, <<"2", "4">>},
        u \in {L_month, <<"m", "o", "n", "t", "h", "s">>, L_year, <<"y", "e", "a", "r", "s">>, L_yr}}
    \cup {L_knee \o <<",", " ">> \o n \o <<"-">> \o L_month \o <<"-">> \o L_old
              \o <<" ">> \o L_policy :
        n \in {<<"1">>, <<"2">>, <<"1", "2">>, <<"2", "4">>}}

InitNumbers ==
    /\ pc = "call"
    /\ input_clauses = <<>>
    /\ extracted_entities = <<>>
    /\ clause_content \in UnitClauseTexts
    /\ clause_info = NoInfo
    /\ query \in UnitQueries
    /\ query_entities = <<>>
    /\ matched_clauses \in {<<>>, <<Clause("c1", T_lakh)>>}
    /\ evaluation = <<>>
    /\ other_clauses = <<>>
    /\ other_evaluation = <<>>
    /\ llm_reply = <<>>
    /\ decision = <<>>

ClauseNumbers ==
    /\ clause_info = NoInfo
    /\ clause_info' = extract_clause_info(clause_content)
    /\ pc' = IF evaluation = <<>> THEN "call" ELSE "done"
    /\ UNCHANGED <<input_clauses, extracted_entities, clause_content, query_entities,
                   matched_clauses, evaluation, other_clauses, other_evaluation, query,
                   llm_reply, decision>>

QueryNumbers ==
    /\ query_entities = <<>>
    /\ query_entities' = _fallback_entity_extraction(query)
    /\ UNCHANGED <<pc, input_clauses, extracted_entities, clause_content, clause_info,
                   matched_clauses, evaluation, other_clauses, other_evaluation, query,
                   llm_reply, decision>>

EvaluateExtracted ==
    /\ query_entities # <<>>
    /\ evaluation = <<>>
    /\ evaluation' = evaluate_coverage_eligibility(query_entities, matched_clauses)
    /\ pc' = IF clause_info = NoInfo THEN "call" ELSE "done"
    /\ UNCHANGED <<input_clauses, extracted_entities, clause_content, clause_info,
                   query_entities, matched_clauses, other_clauses, other_evaluation,
                   query, llm_reply, decision>>

NextNumbers == ClauseNumbers \/ QueryNumbers \/ EvaluateExtracted

SpecNumbers == InitNumbers /\ [][NextNumbers]_vars

(***************************************************************************)
(* Properties of evaluate_coverage_eligibility (checked under Spec).       *)
(***************************************************************************)
Returned == pc = "done" /\ evaluation.outcome = "returned"

\* the coverage limits extract_clause_info yields over the matched clauses
CoverageLimits ==
    {extract_clause_info(matched_clauses[k].clause_content).coverage_limit.v :
        k \in {j \in 1..Len(matched_clauses) :
                 extract_clause_info(matched_clauses[j].clause_content).coverage_limit.set}}

AgeRejection ==
    /\ Returned
    /\ evaluation =
           [DefaultEvaluation EXCEPT
               !.justification =
                   Message(AgeTemplate, <<query_entities.age.v, 18, 65>>, <<>>)]

WaitingRejection(policy_months, required) ==
    /\ Returned
    /\ evaluation =
           [DefaultEvaluation EXCEPT
               !.waiting_period_info =
                   Message(WaitingInfoTemplate, <<policy_months, required>>,
                           Lower(query_entities.condition.v)),
               !.justification =
                   Message(WaitingJustificationTemplate, <<required, policy_months>>, <<>>)]

\* the result is one of the two early rejections
RejectedByAge == Returned /\ evaluation.justification.template = AgeTemplate
RejectedByWaiting ==
    Returned /\ evaluation.justification.template = WaitingJustificationTemplate

\* the coverage step produced the result
ReachedCoverage ==
    Returned /\ evaluation.justification.template \in {ApprovedTemplate, NoCoverageTemplate}

\* C1: whenever evaluate_coverage_eligibility returns decision "approved", amount
\* is set and equals the maximum coverage_limit extract_clause_info yields over the
\* matched clauses.
C1_ApprovedAmountIsMaxLimit ==
    (Returned /\ evaluation.decision = "approved") =>
        /\ evaluation.amount.set
        /\ evaluation.amount.v \in CoverageLimits
        /\ \A l \in CoverageLimits : l <= evaluation.amount.v

\* an approval over two clauses whose limits differ, the larger one first
C1_Witness ==
    /\ Returned
    /\ evaluation.decision = "approved"
    /\ Len(matched_clauses) = 2
    /\ matched_clauses[1].clause_id = "c2"
    /\ matched_clauses[2].clause_id = "c1"
    /\ evaluation.amount = SomeInt(250000)

\* C5: the age rejection is returned exactly when age is present and outside
\* [18, 65]: every present age below 18 or above 65 gives the default record with
\* the age justification, whatever the other inputs; any other age never gives the
\* age justification.
C5_AgeRejectsExactlyOutsideRange ==
    pc = "done" =>
        IF query_entities.age.set
              /\ (query_entities.age.v < 18 \/ query_entities.age.v > 65)
        THEN AgeRejection
        ELSE ~RejectedByAge

\* C6: when the age check does not reject and condition and policy_duration are
\* both present (non-empty, the duration an integer), the waiting-period rejection
\* is returned exactly when the duration is strictly less than the required
\* waiting period, with waiting_period_info and justification citing both numbers;
\* otherwise the coverage step decides.  "knee surgery" with "6" rejects citing 12
\* and 6; "diabetes" with "30" proceeds to the coverage step.
C6_WaitingRejectsExactlyBelowRequirement ==
    (/\ pc = "done"
     /\ ~RejectedByAge
     /\ query_entities.condition.set /\ query_entities.condition.v # <<>>
     /\ query_entities.policy_duration.set /\ query_entities.policy_duration.v # <<>>
     /\ IntParses(query_entities.policy_duration.v)) =>
        LET months == IntOf(query_entities.policy_duration.v)
            condition == Lower(query_entities.condition.v)
            required == required_waiting(condition)
        IN  /\ IF months < required
               THEN WaitingRejection(months, required)
               ELSE ReachedCoverage /\ evaluation.waiting_period_info = EmptyMessage
            /\ (condition = <<"k", "n", "e", "e", " ", "s", "u", "r", "g", "e", "r", "y">>
                  /\ query_entities.policy_duration.v = <<"6">>)
                   => WaitingRejection(6, 12)
            /\ (condition = <<"d", "i", "a", "b", "e", "t", "e", "s">>
                  /\ query_entities.policy_duration.v = <<"3", "0">>)
                   => ReachedCoverage

\* "knee surgery" held for exactly the 12 required months: not rejected
C6_Witness ==
    /\ Returned
    /\ query_entities.age = IntValue(18)
    /\ Lower(query_entities.condition.v) =
           <<"k", "n", "e", "e", " ", "s", "u", "r", "g", "e", "r", "y">>
    /\ query_entities.policy_duration.v = <<"1", "2">>
    /\ ReachedCoverage

\* C7: when neither the age check nor the waiting-period check rejects, the result
\* is the approval (eligible, "approved", amount the maximum limit, confidence 0.8)
\* exactly when some matched clause yields a coverage limit above 0, and otherwise
\* the rejection with confidence 0.3 and the no-applicable-coverage justification.
C7_CoverageStepDecides ==
    (pc = "done" /\ ~RejectedByAge /\ ~RejectedByWaiting) =>
        IF \E l \in CoverageLimits : l > 0
        THEN /\ evaluation.outcome = "returned"
             /\ evaluation.eligible
             /\ evaluation.decision = "approved"
             /\ evaluation.amount = SomeInt(Max(CoverageLimits))
             /\ evaluation.confidence_score = 8
        ELSE /\ evaluation.outcome = "returned"
             /\ ~evaluation.eligible
             /\ evaluation.decision = "rejected"
             /\ evaluation.amount = NoneInt
             /\ evaluation.confidence_score = 3
             /\ evaluation.justification = Message(NoCoverageTemplate, <<>>, <<>>)

\* C8 as stated: with no matched clause the record returned is, for every entity
\* record, a rejection with confidence 0.3.
C8_NoClausesRejectsWithPointThree ==
    (Returned /\ matched_clauses = <<>>) =>
        /\ evaluation.decision = "rejected"
        /\ evaluation.confidence_score = 3

\* C8 amended: with no matched clause every record returned is a rejection without
\* amount; its confidence is 0.3 with the no-applicable-coverage justification
\* unless the age or the waiting-period check rejected, and 0.0 when one did.
C8_NoClausesNeverApproves ==
    (Returned /\ matched_clauses = <<>>) =>
        /\ ~evaluation.eligible
        /\ evaluation.decision = "rejected"
        /\ evaluation.amount = NoneInt
        /\ IF RejectedByAge \/ RejectedByWaiting
           THEN evaluation.confidence_score = 0
           ELSE /\ evaluation.confidence_score = 3
                /\ evaluation.justification = Message(NoCoverageTemplate, <<>>, <<>>)

\* no clause, nothing rejects early: rejected with 0.3
C8_Witness ==
    /\ Returned
    /\ matched_clauses = <<>>
    /\ query_entities.age = IntValue(18)
    /\ evaluation.confidence_score = 3

\* the waiting period the condition calls for, by the listed terms
ListedWaiting(condition) ==
    IF \E term \in {L_knee, L_hip, L_heart, L_brain, L_spine} : Contains(condition, term)
    THEN 12
    ELSE IF \E term \in {L_cancer, L_diabetes, L_hypertension} : Contains(condition, term)
    THEN 24
    ELSE 3

\* C21: the required waiting period evaluate_coverage_eligibility uses is 12 months
\* when the lower-cased condition contains any of knee, hip, heart, brain, spine;
\* otherwise 24 months when it contains any of cancer, diabetes, hypertension;
\* otherwise 3 months.  The surgery group takes precedence when terms of both
\* groups are named, and the bare word "surgery" gets 3 months.  (The requirement
\* shows in the waiting check: the call is rejected for the waiting period exactly
\* below it, and the rejection cites it.)
C21_RequiredWaitingByGroup ==
    (/\ pc = "done"
     /\ ~RejectedByAge
     /\ query_entities.condition.set /\ query_entities.condition.v # <<>>
     /\ query_entities.policy_duration.set /\ query_entities.policy_duration.v # <<>>
     /\ IntParses(query_entities.policy_duration.v)) =>
        LET months == IntOf(query_entities.policy_duration.v)
            condition == Lower(query_entities.condition.v)
        IN  /\ IF months < ListedWaiting(condition)
               THEN WaitingRejection(months, ListedWaiting(condition))
               ELSE ReachedCoverage
            /\ condition = L_surgery => ListedWaiting(condition) = 3
            /\ condition = <<"d", "i", "a", "b", "e", "t", "e", "s", ",", " ", "h", "i", "p">>
                   => ListedWaiting(condition) = 12

\* a condition naming terms of both groups, held 12 months: the surgery
\* requirement is met and the coverage step is reached
C21_Witness ==
    /\ Returned
    /\ query_entities.condition.v =
           <<"D", "i", "a", "b", "e", "t", "e", "s", ",", " ", "h", "i", "p">>
    /\ query_entities.policy_duration.v = <<"1", "2">>
    /\ ReachedCoverage

\* the policy is younger than the waiting period its condition calls for
WaitingUnmet ==
    /\ query_entities.condition.set /\ query_entities.condition.v # <<>>
    /\ query_entities.policy_duration.set /\ query_entities.policy_duration.v # <<>>
    /\ IntParses(query_entities.policy_duration.v)
    /\ IntOf(query_entities.policy_duration.v)
           < ListedWaiting(Lower(query_entities.condition.v))

\* C22: evaluate_coverage_eligibility short-circuits in the order age, waiting
\* period, coverage: when the age is out of range and the waiting period is also
\* unmet the result carries the age justification and an empty
\* waiting_period_info; whenever either check rejects, no clause is scanned, so
\* exclusions stays empty, amount stays unset and confidence_score stays 0.0.
C22_AgeThenWaitingThenCoverage ==
    pc = "done" =>
        /\ (/\ query_entities.age.set
             /\ (query_entities.age.v < 18 \/ query_entities.age.v > 65)
             /\ WaitingUnmet) =>
                /\ RejectedByAge
                /\ evaluation.waiting_period_info = EmptyMessage
        /\ (RejectedByAge \/ RejectedByWaiting) =>
                /\ evaluation.exclusions = <<>>
                /\ evaluation.amount = NoneInt
                /\ evaluation.confidence_score = 0

\* C27: every record evaluate_coverage_eligibility returns has decision
\* "approved" or "rejected" (never pending or partial); eligible is true iff the
\* decision is "approved"; amount is set iff it is "approved"; and
\* confidence_score is 0.8 iff approved, 0.3 iff rejected for lack of a coverage
\* clause, and 0.0 iff rejected by the age or the waiting-period check.
C27_ReturnedRecordConsistent ==
    Returned =>
        /\ evaluation.decision \in {"approved", "rejected"}
        /\ evaluation.eligible <=> evaluation.decision = "approved"
        /\ evaluation.amount.set <=> evaluation.decision = "approved"
        /\ evaluation.confidence_score = 8 <=> evaluation.decision = "approved"
        /\ evaluation.confidence_score = 3 <=>
               /\ evaluation.decision = "rejected"
               /\ evaluation.justification = Message(NoCoverageTemplate, <<>>, <<>>)
        /\ evaluation.confidence_score = 0 <=>
               /\ evaluation.decision = "rejected"
               /\ evaluation.justification.template
                      \in {AgeTemplate, WaitingJustificationTemplate}
        /\ evaluation.confidence_score \in {0, 3, 8}

\* an approval over a clause that also lists an exclusion
C27_Witness ==
    /\ Returned
    /\ Len(matched_clauses) = 1
    /\ matched_clauses[1].clause_id = "c5"
    /\ evaluation.eligible
    /\ evaluation.decision = "approved"
    /\ evaluation.amount = SomeInt(5)
    /\ evaluation.confidence_score = 8
    /\ evaluation.exclusions = <<<<"x">>>>

(***************************************************************************)
(* Properties of two runs (checked under SpecPair).                        *)
(***************************************************************************)
\* every clause's exclusions, in clause order
AllExclusions(clauses) ==
    Concat([k \in 1..Len(clauses) |->
               extract_clause_info(clauses[k].clause_content).exclusions])

\* the two results agree on everything but the exclusions field
SameButExclusions ==
    [evaluation EXCEPT !.exclusions = <<>>] = [other_evaluation EXCEPT !.exclusions = <<>>]

CoverageStepResult(e) ==
    e.outcome = "returned"
        /\ e.justification.template \in {ApprovedTemplate, NoCoverageTemplate}

\* C9 as stated: the two runs agree on eligible, decision, amount, justification
\* and confidence_score; only exclusions differs, and in each result it holds every
\* clause's exclusions in clause order.
C9_ExclusionsInformationalAlwaysListed ==
    pc = "done" =>
        /\ SameButExclusions
        /\ evaluation.exclusions = AllExclusions(matched_clauses)
        /\ other_evaluation.exclusions = AllExclusions(other_clauses)

\* C9 amended: the two runs agree on everything but exclusions; exclusions holds
\* every clause's exclusions in clause order when the coverage step is reached,
\* and is empty when the age or the waiting-period check rejected (or the call
\* raised).
C9_ExclusionsInformational ==
    pc = "done" =>
        /\ SameButExclusions
        /\ evaluation.exclusions =
               IF CoverageStepResult(evaluation)
               THEN AllExclusions(matched_clauses) ELSE <<>>
        /\ other_evaluation.exclusions =
               IF CoverageStepResult(other_evaluation)
               THEN AllExclusions(other_clauses) ELSE <<>>

\* both runs approve the same amount, one listing an exclusion, the other none
C9_Witness ==
    /\ pc = "done"
    /\ evaluation.decision = "approved"
    /\ other_evaluation.decision = "approved"
    /\ evaluation.amount = other_evaluation.amount
    /\ evaluation.exclusions = <<>>
    /\ other_evaluation.exclusions = <<<<"x">>, <<"a">>, <<"b">>>>

(***************************************************************************)
(* Properties of extract_clause_info (checked under SpecExtract).          *)
(***************************************************************************)
WaitingFamilyMatches(text) ==
    SearchWaiting1(text).matched \/ SearchWaiting2(text).matched
CoverageFamilyMatches(text) ==
    SearchCoverage1(text).matched \/ SearchCoverage2(text).matched
ExclusionFamilyMatches(text) ==
    SearchExclusion1(text).matched \/ SearchExclusion2(text).matched

\* "general" exactly when no family matched, and then nothing is populated
GeneralIffNoFamily ==
    /\ clause_info.clause_type = "general" <=>
           ~(\/ WaitingFamilyMatches(clause_content)
             \/ CoverageFamilyMatches(clause_content)
             \/ ExclusionFamilyMatches(clause_content))
    /\ clause_info.clause_type = "general" =>
           /\ clause_info.waiting_period = NoneInt
           /\ clause_info.coverage_limit = NoneInt
           /\ clause_info.exclusions = <<>>

MonthsWaitingTail == SubSeq(T_months_waiting, 3, Len(T_months_waiting))

\* the positions where a phrase "<N> months waiting" starts in the text
MonthsWaitingPhrases(text) ==
    {i \in 1..Len(text) :
        /\ IsDigit(text[i])
        /\ (i = 1 \/ ~IsDigit(text[i - 1]))
        /\ LitAt(text, SkipDigits(text, i), MonthsWaitingTail)}

\* the number N of the phrase that starts at i
PhraseNumber(text, i) == DigitsValue(SubSeq(text, i, SkipDigits(text, i) - 1))

\* no "<count> month(s)/year(s) waiting" phrase starts before position i
NoWaitingPhraseBefore(text, i) ==
    \A j \in 1..(i - 1) : WaitingPattern1End(Lower(text), j) = 0

CommaLakhPhrases(text) ==
    {i \in 1..Len(text) :
        /\ IsDigit(text[i])
        /\ (i = 1 \/ ~IsDigit(text[i - 1]))
        /\ ~(i > 2 /\ text[i - 1] = "," /\ IsDigit(text[i - 2]))
        /\ \E k \in i..(SkipNumber(text, i) - 1) : text[k] = ","
        /\ LitAt(Lower(text), SkipNumber(text, i), <<" ">> \o L_lakh)}

\* the integer that the digits of the number starting at i write
AmountWritten(text, i) ==
    DigitsValue(SelectSeq(SubSeq(text, i, SkipNumber(text, i) - 1), IsDigit))

\* no "<amount> lakh/lac/thousand/million" phrase starts before position i
NoAmountPhraseBefore(text, i) ==
    \A j \in 1..(i - 1) : CoveragePattern1End(Lower(text), j) = 0

\* C12 as stated: for every clause text containing "<N> lakh" with N written with
\* commas, coverage_limit is the integer N with the commas stripped.
C12_CommaAmountAlwaysExtracted ==
    pc = "done" =>
        \A i \in CommaLakhPhrases(clause_content) :
            clause_info.coverage_limit = SomeInt(AmountWritten(clause_content, i))

\* C12 amended: for every clause text containing "<N> lakh" with N written with
\* commas a coverage limit is returned; it is the integer N with the commas
\* stripped when no other "<amount> lakh/lac/thousand/million" phrase stands before
\* the phrase.
C12_LeftmostCommaAmountExtracted ==
    pc = "done" =>
        \A i \in CommaLakhPhrases(clause_content) :
            /\ clause_info.coverage_limit.set
            /\ NoAmountPhraseBefore(clause_content, i) =>
                   clause_info.coverage_limit = SomeInt(AmountWritten(clause_content, i))

\* "12 months waiting2,50,000 Lakh" yields 250000
C12_Witness ==
    /\ pc = "done"
    /\ clause_content = T_months_waiting \o T_commas_lakh
    /\ CommaLakhPhrases(clause_content) = {Len(T_months_waiting) + 1}
    /\ clause_info.coverage_limit = SomeInt(250000)

\* C13: for the system test's mock clause ("... with a maximum coverage of 500,000
\* rupees. Waiting period of 12 months applies ...") extract_clause_info yields
\* coverage_limit 500000.
C13_MockClauseLimit ==
    (pc = "done" /\ clause_content = T_mock_surgical) =>
        clause_info.coverage_limit = SomeInt(500000)

\* the comma-separated, stripped pieces of an exclusion pattern's group
ExclusionItems(group) ==
    [k \in 1..Len(Split(group, ",")) |-> Strip(Split(group, ",")[k])]

\* C23: extract_clause_info populates the three fields independently of the
\* clause_type label: for every clause text the waiting period is set iff a
\* waiting-period pattern matches, coverage_limit is set iff a coverage-limit
\* pattern matches, and exclusions is set iff an exclusion pattern matches,
\* whichever other families match in the same pass; within a family the first
\* pattern in list order that matches supplies the value.
C23_FieldsPopulatedIndependently ==
    pc = "done" =>
        /\ clause_info.waiting_period.set <=> WaitingFamilyMatches(clause_content)
        /\ clause_info.coverage_limit.set <=> CoverageFamilyMatches(clause_content)
        /\ clause_info.exclusions # <<>> <=> ExclusionFamilyMatches(clause_content)
        /\ SearchWaiting1(clause_content).matched =>
               clause_info.waiting_period.v
                   = DigitsValue(SearchWaiting1(clause_content).group1)
        /\ (~SearchWaiting1(clause_content).matched
               /\ SearchWaiting2(clause_content).matched) =>
               clause_info.waiting_period.v
                   = DigitsValue(SearchWaiting2(clause_content).group1)
        /\ SearchCoverage1(clause_content).matched =>
               clause_info.coverage_limit.v
                   = DigitsValue(Remove(SearchCoverage1(clause_content).group1, ","))
        /\ (~SearchCoverage1(clause_content).matched
               /\ SearchCoverage2(clause_content).matched) =>
               clause_info.coverage_limit.v
                   = DigitsValue(Remove(SearchCoverage2(clause_content).group1, ","))
        /\ SearchExclusion1(clause_content).matched =>
               clause_info.exclusions
                   = ExclusionItems(SearchExclusion1(clause_content).group1)
        /\ (~SearchExclusion1(clause_content).matched
               /\ SearchExclusion2(clause_content).matched) =>
               clause_info.exclusions
                   = ExclusionItems(SearchExclusion2(clause_content).group1)

\* "waiting period of 3 years12 months waiting": both waiting patterns match, the
\* second one earlier in the text, and the first pattern supplies the value
C23_Witness ==
    /\ pc = "done"
    /\ clause_content = T_waiting_period_of \o T_months_waiting
    /\ SearchWaiting2(clause_content).group1 = <<"3">>
    /\ clause_info.waiting_period = SomeInt(12)

(***************************************************************************)
(* Properties of analyze_insurance_query (checked under SpecAnalyze).      *)
(***************************************************************************)
DecisionReturned == pc = "done" /\ decision.outcome = "returned"

MatchedClauseIds == {matched_clauses[k].clause_id : k \in 1..Len(matched_clauses)}

ReplyScoreOutOfRange ==
    /\ llm_reply.kind = "json_object"
    /\ llm_reply.body.confidence_score.set
    /\ (llm_reply.body.confidence_score.v < 0 \/ llm_reply.body.confidence_score.v > 10)

\* C2: every decision analyze_insurance_query returns, from the LLM's JSON reply or
\* from the fallback, has confidence_score in [0, 1]; a reply carrying an
\* out-of-range score is never returned as the decision.
C2_ConfidenceInUnitInterval ==
    DecisionReturned =>
        /\ decision.value.confidence_score.set
        /\ decision.value.confidence_score.v >= 0
        /\ decision.value.confidence_score.v <= 10
        /\ ReplyScoreOutOfRange =>
               (decision.by = "fallback" /\ decision.value # llm_reply.body)

\* a reply scoring 1.1 is discarded and the fallback's decision returned
C2_Witness ==
    /\ DecisionReturned
    /\ llm_reply.kind = "json_object"
    /\ llm_reply.body.decision = "approved"
    /\ llm_reply.body.confidence_score = SomeInt(11)
    /\ decision.by = "fallback"
    /\ decision.value.confidence_score = SomeInt(3)

\* C3: every decision analyze_insurance_query returns lists in mapped_clauses only
\* clause ids of clauses present in the matched_clauses it was called with.
C3_MappedClausesAmongMatched ==
    DecisionReturned =>
        \A k \in 1..Len(decision.value.mapped_clauses) :
            decision.value.mapped_clauses[k] \in MatchedClauseIds

\* C4: the fallback decision's mapped_clauses is exactly the clause ids of the
\* first min(3, n) of the n matched clauses, in the order passed in, whatever the
\* decision and whichever clauses contributed a coverage limit.
C4_FallbackMapsFirstThree ==
    (DecisionReturned /\ decision.by = "fallback") =>
        /\ Len(decision.value.mapped_clauses) = Min({3, Len(matched_clauses)})
        /\ \A k \in 1..Len(decision.value.mapped_clauses) :
               decision.value.mapped_clauses[k] = matched_clauses[k].clause_id

\* four matched clauses, the first without a coverage limit: the first three ids
C4_Witness ==
    /\ DecisionReturned
    /\ decision.by = "fallback"
    /\ Len(matched_clauses) = 4
    /\ matched_clauses[4].clause_id = "c1"
    /\ decision.value.decision = "approved"
    /\ decision.value.mapped_clauses = <<"c4", "c1", "c4">>

\* C18: the rule-based path on the system test's query rejects, with justification
\* and waiting_period_info citing the 12-month surgery waiting period against 3
\* months, for any matched-clause list.
C18_TestQueryRejectedForWaiting ==
    (pc = "done" /\ query = Q_test /\ decision.by = "fallback") =>
        /\ decision.outcome = "returned"
        /\ decision.value.decision = "rejected"
        /\ decision.value.justification
               = Message(WaitingJustificationTemplate, <<12, 3>>, <<>>)
        /\ decision.value.waiting_period_info.template = WaitingInfoTemplate
        /\ decision.value.waiting_period_info.numbers = <<3, 12>>

ReplyValid == llm_reply.kind = "json_object" /\ Validates(llm_reply.body)

\* C19: when the LLM call raises or its reply does not parse and validate as a
\* decision, the outcome of analyze_insurance_query is that of the fallback on the
\* same query and the same matched_clauses; the LLM's reply is the decision only
\* when it parsed and validated.
C19_FallbackUnlessReplyValid ==
    pc = "done" =>
        /\ ~ReplyValid =>
               /\ decision.by = "fallback"
               /\ decision = _fallback_decision(query, matched_clauses)
        /\ decision.by = "llm" =>
               /\ ReplyValid
               /\ decision = Outcome("returned", "llm", llm_reply.body)

\* a reply that is a JSON object naming no known decision: the fallback approves
\* from the matched clauses
C19_Witness ==
    /\ pc = "done"
    /\ llm_reply.kind = "json_object"
    /\ llm_reply.body.decision = "maybe"
    /\ llm_reply.body.confidence_score = SomeInt(10)
    /\ matched_clauses = <<Clause("c1", T_lakh)>>
    /\ decision.by = "fallback"
    /\ decision.outcome = "returned"
    /\ decision.value.decision = "approved"
    /\ decision.value.amount = SomeInt(5)

\* C20: the fallback path returns a decision record and raises no error, for every
\* query text and every matched-clause list.
C20_FallbackNeverRaises ==
    (pc = "done" /\ decision.by = "fallback") => decision.outcome = "returned"

(***************************************************************************)
(* Properties of match_clauses_to_query (checked under SpecMatch).         *)
(***************************************************************************)
\* the unclamped score of the k-th clause of the clauses argument, and the
\* denominator it is counted in
UnitsOf(k) == relevance_units(Lower(query), Lower(input_clauses[k].clause_content))
DenOfQuery == ScoreDen(Lower(query))

\* the clauses of a list that carry the score num/DenOfQuery, in list order
WithScore(list, num) ==
    SelectSeq(list, LAMBDA c : c.relevance_score = Score(num, DenOfQuery))

\* C14: every kept clause is annotated with min(1.0, shared query words / query
\* words + 0.3 per medical term in both + 0.2 per city in both), the clamp applied
\* once to the sum, so that no relevance_score exceeds 1.0; a query without words
\* gives base 0 (nothing is kept) and no error.
C14_ScoreIsClampedSum ==
    pc = "done" =>
        /\ \A k \in 1..Len(input_clauses) :
               input_clauses[k].relevance_score.set =>
                   /\ input_clauses[k].relevance_score.den = DenOfQuery
                   /\ input_clauses[k].relevance_score.num = Min({UnitsOf(k), DenOfQuery})
        /\ \A k \in 1..Len(matched_clauses) :
               /\ matched_clauses[k].relevance_score.set
               /\ matched_clauses[k].relevance_score.num
                      <= matched_clauses[k].relevance_score.den
               /\ \E j \in 1..Len(input_clauses) : matched_clauses[k] = input_clauses[j]
        /\ Words(Lower(query)) = {} => matched_clauses = <<>>

\* six shared words of six, four medical terms and two cities: 1 + 1.2 + 0.4,
\* stored as 1.0
C14_Witness ==
    /\ pc = "done"
    /\ query = MQ_many
    /\ Len(input_clauses) = 1
    /\ input_clauses[1].clause_id = "m6"
    /\ UnitsOf(1) = 156 /\ DenOfQuery = 60
    /\ Len(matched_clauses) = 1
    /\ matched_clauses[1].clause_id = "m6"
    /\ matched_clauses[1].relevance_score = Score(60, 60)

\* C15: a clause is kept exactly when its unclamped score is strictly greater than
\* 0.1; a score of exactly 0.1 (1 shared word of 10) or of 0 drops the clause.
C15_KeptIffAboveThreshold ==
    pc = "done" =>
        /\ \A k \in 1..Len(input_clauses) :
               input_clauses[k].relevance_score.set <=> 10 * UnitsOf(k) > DenOfQuery
        /\ Len(matched_clauses)
               = Cardinality({k \in 1..Len(input_clauses) : 10 * UnitsOf(k) > DenOfQuery})
        /\ \A k \in 1..Len(input_clauses) :
               (\E j \in 1..Len(matched_clauses) :
                      matched_clauses[j].clause_id = input_clauses[k].clause_id)
                   <=> (\E i \in 1..Len(input_clauses) :
                          /\ input_clauses[i].clause_id = input_clauses[k].clause_id
                          /\ 10 * UnitsOf(i) > DenOfQuery)

\* ten query words: "a" shares one (0.1, dropped), "a b" shares two (0.2, kept)
C15_Witness ==
    /\ pc = "done"
    /\ query = MQ_ten
    /\ Len(input_clauses) = 2
    /\ input_clauses[1].clause_id = "m1" /\ input_clauses[2].clause_id = "m3"
    /\ 10 * UnitsOf(1) = DenOfQuery
    /\ Len(matched_clauses) = 1
    /\ matched_clauses[1].clause_id = "m3"

\* C16: the returned list is ordered by non-increasing relevance_score, and the
\* kept clauses of one (clamped) score are in the order of the input list.
C16_DescendingAndStable ==
    pc = "done" =>
        /\ \A i, j \in 1..Len(matched_clauses) :
               i < j => matched_clauses[i].relevance_score.num
                            >= matched_clauses[j].relevance_score.num
        /\ \A num \in 0..DenOfQuery :
               WithScore(matched_clauses, num) = WithScore(input_clauses, num)

\* "Surgery in Pune" (1.25) before "knee surgery" (1.1) in the input: both are
\* stored as 1.0 and stay in input order
C16_Witness ==
    /\ pc = "done"
    /\ query = MQ_knee
    /\ Len(input_clauses) = 2
    /\ input_clauses[1].clause_id = "m5" /\ input_clauses[2].clause_id = "m4"
    /\ UnitsOf(1) > UnitsOf(2)
    /\ Len(matched_clauses) = 2
    /\ matched_clauses[1].clause_id = "m5" /\ matched_clauses[2].clause_id = "m4"
    /\ matched_clauses[1].relevance_score = matched_clauses[2].relevance_score

(***************************************************************************)
(* Properties of _fallback_entity_extraction (checked under SpecEntities). *)
(***************************************************************************)
L_year_old == <<"-">> \o L_year \o <<"-">> \o L_old
L_month_old == <<"-">> \o L_month \o <<"-">> \o L_old

\* the positions where a number followed by the given literal starts
NumberBefore(text, literal) ==
    {i \in 1..Len(text) :
        /\ IsDigit(text[i])
        /\ (i = 1 \/ ~IsDigit(text[i - 1]))
        /\ LitAt(text, SkipDigits(text, i), literal)}

\* the digits of the number that starts at i
NumberAt(text, i) == SubSeq(text, i, SkipDigits(text, i) - 1)

\* "<N>-month-old ... policy" starts at j
MonthOldPolicyAt(text, j) ==
    /\ j \in NumberBefore(text, L_month_old)
    /\ Contains(SubSeq(text, j, Len(text)), L_policy)

\* C17: for a query with an age phrase "<A>-year-old" followed later by a policy
\* phrase "<N>-month-old ... policy" the rule-based extraction yields age A and
\* policy_duration "N"; the system test's query yields age 46, gender male,
\* condition knee or surgery, location Pune and policy_duration "3".
C17_AgeAndPolicyDuration ==
    pc = "done" =>
        /\ \A i \in NumberBefore(query, L_year_old) :
               \A j \in (i + 1)..Len(query) :
                   MonthOldPolicyAt(query, j) =>
                       /\ query_entities.age = IntValue(DigitsValue(NumberAt(query, i)))
                       /\ query_entities.policy_duration = StrValue(NumberAt(query, j))
        /\ query = Q_test =>
               /\ query_entities.age = IntValue(46)
               /\ query_entities.gender = StrValue(L_male)
               /\ query_entities.condition \in {StrValue(L_knee), StrValue(L_surgery)}
               /\ query_entities.location = StrValue(L_Pune)
               /\ query_entities.policy_duration = StrValue(<<"3">>)

\* one-to-one assignments of the positions of the result to positions of the
\* input holding the same clause
Selections ==
    {f \in [1..Len(matched_clauses) -> 1..Len(input_clauses)] :
        /\ \A i, j \in 1..Len(matched_clauses) : i # j => f[i] # f[j]
        /\ \A i \in 1..Len(matched_clauses) :
               /\ matched_clauses[i].clause_id = input_clauses[f[i]].clause_id
               /\ matched_clauses[i].clause_content = input_clauses[f[i]].clause_content}

\* C28: match_clauses_to_query selects without inventing and is idempotent: its
\* output is a sub-list of the input clauses (each input clause at most once),
\* every output clause carries a relevance_score in (0.1, 1.0], and applying the
\* matcher with the same query to its own output returns the same list in the
\* same order with the same scores.
C28_SelectsAndIsIdempotent ==
    pc = "done" =>
        /\ Selections # {}
        /\ \A k \in 1..Len(matched_clauses) :
               /\ matched_clauses[k].relevance_score.set
               /\ 10 * matched_clauses[k].relevance_score.num
                      > matched_clauses[k].relevance_score.den
               /\ matched_clauses[k].relevance_score.num
                      <= matched_clauses[k].relevance_score.den
        /\ match_clauses_to_query(query, matched_clauses) = matched_clauses

\* "a b c d e" against "a" (0.2) and "a b" (0.4): both are selected, in the
\* opposite order, and matching the result again changes nothing
C28_Witness ==
    /\ pc = "done"
    /\ Len(input_clauses) = 2
    /\ input_clauses[1].clause_id = "m1" /\ input_clauses[2].clause_id = "m3"
    /\ Len(matched_clauses) = 2
    /\ matched_clauses[1].clause_id = "m3" /\ matched_clauses[2].clause_id = "m1"
    /\ matched_clauses[1].relevance_score = Score(20, 50)
    /\ matched_clauses[2].relevance_score = Score(10, 50)
    /\ match_clauses_to_query(query, matched_clauses) = matched_clauses

\* C26: match_clauses_to_query is pure: it leaves the clause records passed to it
\* unchanged (a clause keeps the relevance_score it arrived with), so callers
\* sharing the records see the same clauses after the call as before it.
C26_ClauseRecordsUnchanged == [][input_clauses' = input_clauses]_vars

(***************************************************************************)
(* Properties of the two entity extractions (checked under SpecQuery).     *)
(***************************************************************************)
\* some word of the list stands in the query as a whole word, in any case
WholeWordIn(words, text) ==
    \E k \in 1..Len(words) : \E i \in 1..Len(text) :
        /\ LitAt(Lower(text), i, words[k])
        /\ WordBoundary(Lower(text), i)
        /\ WordBoundary(Lower(text), i + Len(words[k]))

\* the three ordered groups: procedure words, body parts, diseases
ProcedureWords == <<L_surgery, L_operation, L_procedure, L_treatment, L_therapy>>
BodyParts == <<L_knee, L_hip, L_heart, L_brain, L_spine, L_joint>>
Diseases == <<L_cancer, L_diabetes, L_hypertension, L_asthma>>

Among(words, text) == \E k \in 1..Len(words) : Lower(text) = words[k]

\* "knee surgery in Pune, "
KneeSurgeryQuery ==
    <<"k", "n", "e", "e", " ", "s", "u", "r", "g", "e", "r", "y", " ", "i", "n", " ", "P", "u", "n", "e", ",", " ">>

\* C24: the query entity extractor sets condition from the first of the three
\* ordered pattern groups (procedure words, then body parts, then diseases) that
\* has any match in the query and ignores later groups, even when a later
\* group's word occurs earlier in the text ("knee surgery" gives "surgery"); a
\* field that is not found does not prevent the other fields from being
\* extracted.  The fallback extraction orders its keywords the same way.
C24_FirstGroupSetsCondition ==
    /\ extracted_entities # <<>> =>
           /\ extracted_entities.condition.set <=>
                  \/ WholeWordIn(ProcedureWords, query)
                  \/ WholeWordIn(BodyParts, query)
                  \/ WholeWordIn(Diseases, query)
           /\ extracted_entities.condition.set =>
                  IF WholeWordIn(ProcedureWords, query)
                  THEN Among(ProcedureWords, extracted_entities.condition.v)
                  ELSE IF WholeWordIn(BodyParts, query)
                  THEN Among(BodyParts, extracted_entities.condition.v)
                  ELSE Among(Diseases, extracted_entities.condition.v)
           /\ query = KneeSurgeryQuery =>
                  extracted_entities.condition = StrValue(L_surgery)
           /\ extracted_entities.age.set <=> SearchAge(query).matched
           /\ extracted_entities.gender.set <=> SearchGender(query).matched
           /\ extracted_entities.location.set <=> WholeWordIn(location_pattern, query)
           /\ extracted_entities.policy_duration.set <=> SearchDuration(query).matched
    /\ query_entities # <<>> =>
           /\ query_entities.condition.set =>
                  IF Contains(Lower(query), L_surgery) \/ Contains(Lower(query), L_operation)
                  THEN query_entities.condition.v \in {L_surgery, L_operation}
                  ELSE IF \E w \in {L_knee, L_hip, L_heart} : Contains(Lower(query), w)
                  THEN query_entities.condition.v \in {L_knee, L_hip, L_heart}
                  ELSE query_entities.condition.v \in {L_cancer, L_diabetes}
           /\ query = KneeSurgeryQuery =>
                  query_entities.condition = StrValue(L_surgery)
           /\ query_entities.age.set <=> SearchAge(query).matched
           /\ query_entities.policy_duration.set <=> SearchDuration(query).matched

\* "knee surgery in Pune, ": the body part comes first in the text, the condition
\* is the procedure word; no age and no duration is found, yet the location is
C24_Witness ==
    /\ extracted_entities # <<>>
    /\ query = KneeSurgeryQuery
    /\ extracted_entities.condition = StrValue(L_surgery)
    /\ ~extracted_entities.age.set
    /\ ~extracted_entities.policy_duration.set
    /\ extracted_entities.location = StrValue(L_Pune)

\* the two extractions found the same value for a field, or both found none
SameField(a, b) == a.set = b.set /\ (a.set => a.v = b.v)

\* C25: for every query the fallback extraction and
\* DocumentProcessor.extract_entities_from_query yield the same age, gender,
\* condition, location and policy_duration (location compared
\* case-insensitively).
C25_ExtractorsAgree ==
    pc = "done" =>
        /\ SameField(query_entities.age, extracted_entities.age)
        /\ SameField(query_entities.gender, extracted_entities.gender)
        /\ SameField(query_entities.condition, extracted_entities.condition)
        /\ SameField([query_entities.location EXCEPT !.v = Lower(@)],
                     [extracted_entities.location EXCEPT !.v = Lower(@)])
        /\ SameField(query_entities.policy_duration, extracted_entities.policy_duration)

(***************************************************************************)
(* Properties of numbers with units (checked under SpecNumbers).           *)
(***************************************************************************)
\* the digits written in a text that holds one number, and their value
DigitsWritten(text) == SelectSeq(text, IsDigit)
NumberWritten(text) == DigitsValue(DigitsWritten(text))

\* C29: numbers are carried through without unit conversion: extract_clause_info
\* returns the captured count N as the waiting period whether the text says N
\* months or N years, and the captured amount N as coverage_limit whichever
\* magnitude word (lakh, lac, thousand, million) follows it; the fallback entity
\* extraction returns N as policy_duration for "N-month" and "N-year" phrases
\* alike, and evaluate_coverage_eligibility compares that N directly against the
\* waiting period in months.
C29_NumbersWithoutUnitConversion ==
    /\ clause_info # NoInfo =>
           IF Contains(clause_content, L_waiting)
           THEN /\ clause_info.waiting_period = SomeInt(NumberWritten(clause_content))
                /\ clause_info.coverage_limit = NoneInt
           ELSE /\ clause_info.coverage_limit = SomeInt(NumberWritten(clause_content))
                /\ clause_info.waiting_period = NoneInt
    /\ query_entities # <<>> =>
           query_entities.policy_duration = StrValue(DigitsWritten(query))
    /\ evaluation # <<>> =>
           IF NumberWritten(query) < 12
           THEN /\ evaluation.justification =
                       Message(WaitingJustificationTemplate,
                               <<12, NumberWritten(query)>>, <<>>)
                /\ evaluation.decision = "rejected"
           ELSE evaluation.justification.template
                    \in {ApprovedTemplate, NoCoverageTemplate}

\* "3 years waiting" gives waiting period 3; "knee, 1 year policy" gives
\* policy_duration "1" and is rejected as 1 month against the 12 required
C29_Witness ==
    /\ pc = "done"
    /\ clause_content = <<"3", " ", "y", "e", "a", "r", "s", " ", "w", "a", "i", "t", "i", "n", "g">>
    /\ clause_info.waiting_period = SomeInt(3)
    /\ query = <<"k", "n", "e", "e", ",", " ", "1", " ", "y", "e", "a", "r", " ", "p", "o", "l", "i", "c", "y">>
    /\ query_entities.policy_duration = StrValue(<<"1">>)
    /\ evaluation.justification = Message(WaitingJustificationTemplate, <<12, 1>>, <<>>)
====
